---------------------------- MODULE Spec2Model ----------------------------
(***************************************************************************)
(* The match engine of the SWOT strategy mission game (UserGameView in     *)
(* App.tsx): the per-round state machine READY -> DECISION / SHOWDOWN ->   *)
(* RESULT -> READY / FINISHED, the chip economy (pot, carry-over, steal    *)
(* from future rounds) and the two-team result confirmation.               *)
(*                                                                         *)
(* The shared record is `room` (the two Team records and their Match).     *)
(* Each handler is an operator from the room a client sees and the acting  *)
(* team to the room it writes; the actions apply the handlers to the       *)
(* shared room, one client step at a time.                                 *)
(***************************************************************************)
EXTENDS Integers, Sequences, FiniteSets, TLC

(***************************************************************************)
(* Program constants (types.ts).                                           *)
(***************************************************************************)
TOTAL_ROUNDS == 10

TOTAL_CHIPS == 30

CARDS == 0 .. 9

(***************************************************************************)
(* Bounds of the model: which locked strategies a match starts from.       *)
(***************************************************************************)
\* chip plans 1..MaxPlan: plan k puts the extra stake on round k + 1
MaxPlan == 2

\* the extra stake of that round, on top of the 1 chip every round holds
Extra == 3

\* card plans 0..MaxCardPlan of team B (team A plays its cards in order)
MaxCardPlan == 1

\* the editor works on the cards of the last EditSpan rounds
EditSpan == 2

\* the editor keeps every round at most ChipsLeft chips below its plan
ChipsLeft == 2

Rounds == 1 .. TOTAL_ROUNDS

teamAId == "tA"

teamBId == "tB"

Teams == {teamAId, teamBId}

\* JavaScript's undefined, for a field that holds a team id
None == "undefined"

\* an optional record field (lastAction, lastRoundResult) is the sequence of
\* its value: empty where the code has undefined
Undefined == <<>>

Some(v) == <<v>>

VARIABLES
    room,             \* the shared record: [status, teams, match]
    stealModalOpen,   \* per client: useState stealModalOpen
    neededChips,      \* per client: useState neededChips
    tempStrategy,     \* per client: useState tempStrategy
    editorStrategy,   \* per client: useState strategy, what the editor shows
    submitConfirmOpen,\* per client: useState submitConfirmOpen
    clients,          \* per device: the rooms it holds and its pending work
    lastOp            \* the handler that ran last and the team whose client ran it

vars == <<room, stealModalOpen, neededChips, tempStrategy, editorStrategy,
          submitConfirmOpen, clients, lastOp>>

(***************************************************************************)
(* Strategies the match starts from: validated and locked.                 *)
(***************************************************************************)
\* 1 chip in every round, Extra more in round k + 1, the rest in the last round
ChipPlan(k) ==
    [i \in Rounds |->
        1 + (IF i = k + 1 THEN Extra ELSE 0)
          + (IF i = TOTAL_ROUNDS THEN TOTAL_CHIPS - TOTAL_ROUNDS - Extra ELSE 0)]

\* cards 0..9 in order; for c > 0 the cards of rounds c and c + 2 change places:
\* against the cards in order, round c is lost, round c + 1 drawn, round c + 2 won
CardPlan(c) ==
    [i \in Rounds |->
        IF c > 0 /\ i = c THEN c + 1
        ELSE IF c > 0 /\ i = c + 2 THEN c - 1
        ELSE i - 1]

MakeStrategy(cards, chips) ==
    [i \in Rounds |-> [round |-> i, card |-> cards[i], chips |-> chips[i]]]

usedChipsOf(strategy) ==
    LET RECURSIVE Sum(_)
        Sum(i) == IF i = 0 THEN 0 ELSE strategy[i].chips + Sum(i - 1)
    IN  Sum(TOTAL_ROUNDS)

\* remainingChips === 0 && usedCards.length === TOTAL_ROUNDS && allRoundsHaveChips
isSetupComplete(strategy) ==
    /\ TOTAL_CHIPS - usedChipsOf(strategy) = 0
    /\ Cardinality({i \in Rounds : strategy[i].card # -1}) = TOTAL_ROUNDS
    /\ \A i \in Rounds : strategy[i].chips > 0

\* the deck hands out a card only while no round holds it
cardsDistinct(strategy) ==
    \A i, j \in Rounds :
        (i # j /\ strategy[i].card # -1) => strategy[i].card # strategy[j].card

NewTeam(id, strategy) ==
    [id |-> id, isReady |-> TRUE, winnings |-> 0, strategy |-> strategy]

\* a team as createRoom makes it: not ready, no strategy stored
createdTeam(id) ==
    [id |-> id, isReady |-> FALSE, winnings |-> 0, strategy |-> Undefined]

NewMatch ==
    [teamAId |-> teamAId, teamBId |-> teamBId, teamAScore |-> 0, teamBScore |-> 0,
     currentRound |-> 1, roundStatus |-> "READY", pot |-> 0, carryOver |-> 0,
     history |-> <<>>, turnOwner |-> None, lastAction |-> Undefined,
     lastRoundResult |-> Undefined, resultConfirmed |-> {}]

(***************************************************************************)
(* Helpers of UserGameView.                                                *)
(***************************************************************************)
\* as isTeamA, but every team takes itself for team A
isTeamA_everyTeam(r, teamId) == TRUE

isTeamA(r, teamId) == r.match.teamAId = teamId

opponentId(r, teamId) ==
    IF isTeamA(r, teamId) THEN r.match.teamBId ELSE r.match.teamAId

\* as isMyTurn, but every team passes
isMyTurn_anyTeam(r, teamId) == TRUE

isMyTurn(r, teamId) == r.match.turnOwner = teamId

\* { ...myMatch, ...updates }
Merge(rec, updates) ==
    [f \in DOMAIN rec |-> IF f \in DOMAIN updates THEN updates[f] ELSE rec[f]]

updateMatchState(r, updates) ==
    [r EXCEPT !.match = Merge(r.match, updates)]

updateTeamsAndMatch(r, updatedTeams, matchUpdates) ==
    [r EXCEPT !.teams = updatedTeams, !.match = Merge(r.match, matchUpdates)]

\* as roundPot, but the carry-over is left out of the pot
roundPot_noCarry(chipsX, chipsY, carryOver) == chipsX + chipsY

\* const pot = ... chips + ... chips + (myMatch.carryOver || 0)
roundPot(chipsX, chipsY, carryOver) == chipsX + chipsY + carryOver

(***************************************************************************)
(* READY evaluation: the effect of team A's client.                        *)
(***************************************************************************)
\* as fewerChipsTeamId, but it names the team holding more chips
fewerChipsTeamId_more(r, teamId) ==
    LET currentRound == r.match.currentRound
        myStrat      == r.teams[teamId].strategy[currentRound]
        oppStrat     == r.teams[opponentId(r, teamId)].strategy[currentRound]
    IN  IF myStrat.chips > oppStrat.chips THEN teamId ELSE opponentId(r, teamId)

fewerChipsTeamId(r, teamId) ==
    LET currentRound == r.match.currentRound
        myStrat      == r.teams[teamId].strategy[currentRound]
        oppStrat     == r.teams[opponentId(r, teamId)].strategy[currentRound]
    IN  IF myStrat.chips < oppStrat.chips THEN teamId ELSE opponentId(r, teamId)

\* team.strategy![...] of a team that never submitted: the read throws a
\* TypeError and the effect ends there
strategyMissing(r) == \E t \in Teams : r.teams[t].strategy = Undefined

\* as readyEffect, but unequal chips go to SHOWDOWN as well
readyEffect_alwaysShowdown(r, teamId) ==
    IF r.status # "PLAYING" THEN r
    ELSE IF ~isTeamA(r, teamId) THEN r
    ELSE IF strategyMissing(r) THEN r
    ELSE IF r.match.roundStatus # "READY" THEN r
    ELSE updateMatchState(r, [roundStatus |-> "SHOWDOWN"])

readyEffect(r, teamId) ==
    LET myMatch  == r.match
        myStrat  == r.teams[teamId].strategy[myMatch.currentRound]
        oppStrat == r.teams[opponentId(r, teamId)].strategy[myMatch.currentRound]
    IN  IF r.status # "PLAYING" THEN r
        ELSE IF ~isTeamA(r, teamId) THEN r
        ELSE IF strategyMissing(r) THEN r
        ELSE IF myMatch.roundStatus # "READY" THEN r
        ELSE IF myStrat.chips = oppStrat.chips
             THEN updateMatchState(r, [roundStatus |-> "SHOWDOWN"])
             ELSE updateMatchState(r, [roundStatus |-> "DECISION",
                                       turnOwner |-> fewerChipsTeamId(r, teamId)])

(***************************************************************************)
(* Fold.                                                                   *)
(***************************************************************************)
\* as handleFold's result code, but the two sides are swapped
foldResult_swapped(r, teamId) == IF isTeamA(r, teamId) THEN "B_FOLDED" ELSE "A_FOLDED"

\* result: isTeamA ? 'A_FOLDED' : 'B_FOLDED'
foldResult(r, teamId) == IF isTeamA(r, teamId) THEN "A_FOLDED" ELSE "B_FOLDED"

\* as handleFold, but the round's entry is not appended to the history
handleFold_noHistory(r, teamId) ==
    LET myMatch      == r.match
        currentRound == myMatch.currentRound
        opp          == opponentId(r, teamId)
        myStrat      == r.teams[teamId].strategy[currentRound]
        oppStrat     == r.teams[opp].strategy[currentRound]
        pot          == roundPot(myStrat.chips, oppStrat.chips, myMatch.carryOver)
        historyItem  ==
            [round      |-> currentRound,
             teamACard  |-> IF isTeamA(r, teamId) THEN myStrat.card ELSE oppStrat.card,
             teamBCard  |-> IF isTeamA(r, teamId) THEN oppStrat.card ELSE myStrat.card,
             teamAChips |-> IF isTeamA(r, teamId) THEN myStrat.chips ELSE oppStrat.chips,
             teamBChips |-> IF isTeamA(r, teamId) THEN oppStrat.chips ELSE myStrat.chips,
             result     |-> foldResult(r, teamId),
             potWon     |-> pot]
        updatedTeams ==
            [r.teams EXCEPT ![opp].winnings = r.teams[opp].winnings + pot]
    IN  IF ~isMyTurn(r, teamId) THEN r
        ELSE updateTeamsAndMatch(r, updatedTeams,
                 [roundStatus     |-> "RESULT",
                  turnOwner       |-> None,
                  lastAction      |-> Some([teamId |-> teamId, action |-> "FOLD"]),
                  lastRoundResult |-> Some(historyItem),
                  resultConfirmed |-> {}])

handleFold(r, teamId) ==
    LET myMatch      == r.match
        currentRound == myMatch.currentRound
        opp          == opponentId(r, teamId)
        myStrat      == r.teams[teamId].strategy[currentRound]
        oppStrat     == r.teams[opp].strategy[currentRound]
        pot          == roundPot(myStrat.chips, oppStrat.chips, myMatch.carryOver)
        historyItem  ==
            [round      |-> currentRound,
             teamACard  |-> IF isTeamA(r, teamId) THEN myStrat.card ELSE oppStrat.card,
             teamBCard  |-> IF isTeamA(r, teamId) THEN oppStrat.card ELSE myStrat.card,
             teamAChips |-> IF isTeamA(r, teamId) THEN myStrat.chips ELSE oppStrat.chips,
             teamBChips |-> IF isTeamA(r, teamId) THEN oppStrat.chips ELSE myStrat.chips,
             result     |-> foldResult(r, teamId),
             potWon     |-> pot]
        updatedTeams ==
            [r.teams EXCEPT ![opp].winnings = r.teams[opp].winnings + pot]
    IN  IF ~isMyTurn(r, teamId) THEN r
        ELSE updateTeamsAndMatch(r, updatedTeams,
                 [roundStatus     |-> "RESULT",
                  turnOwner       |-> None,
                  lastAction      |-> Some([teamId |-> teamId, action |-> "FOLD"]),
                  lastRoundResult |-> Some(historyItem),
                  resultConfirmed |-> {},
                  history         |-> Append(myMatch.history, historyItem)])

(***************************************************************************)
(* Call, and the steal modal an underfunded Call opens.                    *)
(***************************************************************************)
\* diff = oppStrat.chips - myStrat.chips
callDiff(r, teamId) ==
    LET currentRound == r.match.currentRound
    IN  r.teams[opponentId(r, teamId)].strategy[currentRound].chips
          - r.teams[teamId].strategy[currentRound].chips

\* as the funded branch's winnings, but the difference is not debited
callWinnings_noDebit(winnings, diff) == winnings

\* winnings: winnings - diff
callWinnings(winnings, diff) == winnings - diff

\* as the test of handleCall, but every Call counts as funded
callIsFunded_always(winnings, diff) == TRUE

\* if (winnings >= diff)
callIsFunded(winnings, diff) == winnings >= diff

\* as handleCall, but the funded branch leaves turnOwner as it is
handleCall_keepsTurn(r, teamId) ==
    LET currentRound == r.match.currentRound
        diff         == callDiff(r, teamId)
        winnings     == r.teams[teamId].winnings
        updatedTeams ==
            [r.teams EXCEPT
                ![teamId].winnings = callWinnings(winnings, diff),
                ![teamId].strategy[currentRound].chips = @ + diff]
    IN  IF ~isMyTurn(r, teamId) THEN r
        ELSE IF callIsFunded(winnings, diff)
             THEN updateTeamsAndMatch(r, updatedTeams,
                      [roundStatus |-> "SHOWDOWN",
                       lastAction  |-> Some([teamId |-> teamId, action |-> "CALL"])])
             ELSE r

handleCall(r, teamId) ==
    LET currentRound == r.match.currentRound
        diff         == callDiff(r, teamId)
        winnings     == r.teams[teamId].winnings
        updatedTeams ==
            [r.teams EXCEPT
                ![teamId].winnings = callWinnings(winnings, diff),
                ![teamId].strategy[currentRound].chips = @ + diff]
    IN  IF ~isMyTurn(r, teamId) THEN r
        ELSE IF callIsFunded(winnings, diff)
             THEN updateTeamsAndMatch(r, updatedTeams,
                      [roundStatus |-> "SHOWDOWN",
                       turnOwner   |-> None,
                       lastAction  |-> Some([teamId |-> teamId, action |-> "CALL"])])
             ELSE r

\* the rounds the steal modal renders: idx >= currentRound, idx counted from 0
futureRounds(r) == {i \in Rounds : i - 1 >= r.match.currentRound}

\* the else branch of handleCall is taken: it is my turn and winnings < diff
callOpensSteal(r, teamId) ==
    isMyTurn(r, teamId) /\ ~callIsFunded(r.teams[teamId].winnings, callDiff(r, teamId))

\* sum over the future rounds of (s.chips - temp[i].chips)
stolenAmount(r, teamId, temp) ==
    LET strategy == r.teams[teamId].strategy
        RECURSIVE Sum(_)
        Sum(i) ==
            IF i = 0 THEN 0
            ELSE (IF i \in futureRounds(r) /\ i \in DOMAIN temp
                  THEN strategy[i].chips - temp[i].chips ELSE 0) + Sum(i - 1)
    IN  Sum(TOTAL_ROUNDS)

\* setTempStrategy(prev => ...) of adjustTempChips; roundIdx is a round number
adjustTempChips(r, teamId, prev, needed, roundIdx, delta) ==
    LET newVal == prev[roundIdx].chips + delta
        next   == [prev EXCEPT ![roundIdx].chips = newVal]
    IN  IF newVal < 1 THEN prev
        ELSE IF delta < 0 /\ stolenAmount(r, teamId, next) > needed THEN prev
        ELSE next

calculateStolenAmount(r, teamId, temp) ==
    IF Len(temp) = 0 THEN 0 ELSE stolenAmount(r, teamId, temp)

\* as canConfirmSteal, but the button is never disabled
canConfirmSteal_always(r, teamId, temp, needed) == TRUE

canConfirmSteal(r, teamId, temp, needed) ==
    calculateStolenAmount(r, teamId, temp) >= needed

\* as stealStrategy, but the current round's chips are not raised by diff
stealStrategy_noRaise(r, teamId, temp) == temp

\* updatedStrategy of confirmSteal
stealStrategy(r, teamId, temp) ==
    LET currentRound == r.match.currentRound
    IN  [temp EXCEPT ![currentRound].chips = @ + callDiff(r, teamId)]

confirmSteal(r, teamId, temp) ==
    LET updatedTeams ==
            [r.teams EXCEPT
                ![teamId].winnings = 0,
                ![teamId].strategy = stealStrategy(r, teamId, temp)]
    IN  updateTeamsAndMatch(r, updatedTeams,
            [roundStatus |-> "SHOWDOWN", turnOwner |-> None])

(***************************************************************************)
(* Showdown.                                                               *)
(***************************************************************************)
\* as Half, but nothing is divided
Half_whole(n) == n

\* JavaScript's n / 2: a whole number only for an even n
Half(n) == IF n % 2 = 0 THEN n \div 2 ELSE "fraction"

\* as showdownWinner, but the lower card wins
showdownWinner_lowerWins(cardA, cardB) ==
    IF cardA < cardB THEN "A"
    ELSE IF cardB < cardA THEN "B"
    ELSE "DRAW"

\* the comparison of the two cards of the round
showdownWinner(cardA, cardB) ==
    IF cardA > cardB THEN "A"
    ELSE IF cardB > cardA THEN "B"
    ELSE "DRAW"

\* as handleShowdown, but a draw carries only the chips of its own round forward
handleShowdown_carryDropped(r, teamId) ==
    LET myMatch      == r.match
        currentRound == myMatch.currentRound
        teamA        == r.teams[myMatch.teamAId]
        teamB        == r.teams[myMatch.teamBId]
        stratA       == teamA.strategy[currentRound]
        stratB       == teamB.strategy[currentRound]
        pot          == roundPot(stratA.chips, stratB.chips, myMatch.carryOver)
        winner       == showdownWinner(stratA.card, stratB.card)
        lastDraw     == winner = "DRAW" /\ currentRound = TOTAL_ROUNDS
        carryOver    == IF winner = "DRAW" /\ currentRound # TOTAL_ROUNDS
                        THEN stratA.chips + stratB.chips ELSE 0
        winningsA    == IF winner = "A" THEN teamA.winnings + pot
                        ELSE IF lastDraw
                             THEN teamA.winnings + stratA.chips + Half(myMatch.carryOver)
                             ELSE teamA.winnings
        winningsB    == IF winner = "B" THEN teamB.winnings + pot
                        ELSE IF lastDraw
                             THEN teamB.winnings + stratB.chips + Half(myMatch.carryOver)
                             ELSE teamB.winnings
        scoreA       == IF winner = "A" THEN myMatch.teamAScore + 1 ELSE myMatch.teamAScore
        scoreB       == IF winner = "B" THEN myMatch.teamBScore + 1 ELSE myMatch.teamBScore
        historyItem  ==
            [round      |-> currentRound,
             teamACard  |-> stratA.card,
             teamBCard  |-> stratB.card,
             teamAChips |-> stratA.chips,
             teamBChips |-> stratB.chips,
             result     |-> IF winner = "A" THEN "A_WON"
                            ELSE IF winner = "B" THEN "B_WON" ELSE "DRAW",
             potWon     |-> IF winner = "DRAW" THEN 0 ELSE pot]
        updatedTeams ==
            [r.teams EXCEPT ![myMatch.teamAId].winnings = winningsA,
                            ![myMatch.teamBId].winnings = winningsB]
    IN  IF myMatch.roundStatus # "SHOWDOWN" THEN r
        ELSE updateTeamsAndMatch(r, updatedTeams,
                 [roundStatus     |-> "RESULT",
                  turnOwner       |-> None,
                  pot             |-> 0,
                  carryOver       |-> carryOver,
                  teamAScore      |-> scoreA,
                  teamBScore      |-> scoreB,
                  lastRoundResult |-> Some(historyItem),
                  resultConfirmed |-> {},
                  history         |-> Append(myMatch.history, historyItem)])

handleShowdown(r, teamId) ==
    LET myMatch      == r.match
        currentRound == myMatch.currentRound
        teamA        == r.teams[myMatch.teamAId]
        teamB        == r.teams[myMatch.teamBId]
        stratA       == teamA.strategy[currentRound]
        stratB       == teamB.strategy[currentRound]
        pot          == roundPot(stratA.chips, stratB.chips, myMatch.carryOver)
        winner       == showdownWinner(stratA.card, stratB.card)
        lastDraw     == winner = "DRAW" /\ currentRound = TOTAL_ROUNDS
        carryOver    == IF winner = "DRAW" /\ currentRound # TOTAL_ROUNDS
                        THEN pot ELSE 0
        winningsA    == IF winner = "A" THEN teamA.winnings + pot
                        ELSE IF lastDraw
                             THEN teamA.winnings + stratA.chips + Half(myMatch.carryOver)
                             ELSE teamA.winnings
        winningsB    == IF winner = "B" THEN teamB.winnings + pot
                        ELSE IF lastDraw
                             THEN teamB.winnings + stratB.chips + Half(myMatch.carryOver)
                             ELSE teamB.winnings
        scoreA       == IF winner = "A" THEN myMatch.teamAScore + 1 ELSE myMatch.teamAScore
        scoreB       == IF winner = "B" THEN myMatch.teamBScore + 1 ELSE myMatch.teamBScore
        historyItem  ==
            [round      |-> currentRound,
             teamACard  |-> stratA.card,
             teamBCard  |-> stratB.card,
             teamAChips |-> stratA.chips,
             teamBChips |-> stratB.chips,
             result     |-> IF winner = "A" THEN "A_WON"
                            ELSE IF winner = "B" THEN "B_WON" ELSE "DRAW",
             potWon     |-> IF winner = "DRAW" THEN 0 ELSE pot]
        updatedTeams ==
            [r.teams EXCEPT ![myMatch.teamAId].winnings = winningsA,
                            ![myMatch.teamBId].winnings = winningsB]
    IN  IF myMatch.roundStatus # "SHOWDOWN" THEN r
        ELSE updateTeamsAndMatch(r, updatedTeams,
                 [roundStatus     |-> "RESULT",
                  turnOwner       |-> None,
                  pot             |-> 0,
                  carryOver       |-> carryOver,
                  teamAScore      |-> scoreA,
                  teamBScore      |-> scoreB,
                  lastRoundResult |-> Some(historyItem),
                  resultConfirmed |-> {},
                  history         |-> Append(myMatch.history, historyItem)])

(***************************************************************************)
(* Result confirmation.                                                    *)
(***************************************************************************)
\* as confirmButtonEnabled, but the result modal is rendered in every roundStatus
confirmButtonEnabled_anyStatus(r, teamId) ==
    teamId \notin r.match.resultConfirmed

\* the result modal is rendered, and its button is not disabled for this team
confirmButtonEnabled(r, teamId) ==
    /\ r.match.roundStatus = "RESULT"
    /\ r.match.lastRoundResult # Undefined
    /\ teamId \notin r.match.resultConfirmed

\* { ...resultConfirmed, [teamId]: true }, as the set of the teams marked true
confirmedWith(r, teamId) == r.match.resultConfirmed \cup {teamId}

\* as bothConfirmed, but one team's mark is enough
bothConfirmed_either(r, teamId) ==
    \/ r.match.teamAId \in confirmedWith(r, teamId)
    \/ r.match.teamBId \in confirmedWith(r, teamId)

bothConfirmed(r, teamId) ==
    /\ r.match.teamAId \in confirmedWith(r, teamId)
    /\ r.match.teamBId \in confirmedWith(r, teamId)

\* as handleConfirmResult, but the first Confirm already advances the round
handleConfirmResult_advanceAlone(r, teamId) ==
    LET myMatch   == r.match
        nextRound == myMatch.currentRound + 1
        isGameEnd == nextRound > TOTAL_ROUNDS
    IN  updateMatchState(r,
            [currentRound    |-> IF isGameEnd THEN myMatch.currentRound ELSE nextRound,
             roundStatus     |-> IF isGameEnd THEN "FINISHED" ELSE "READY",
             resultConfirmed |-> {},
             lastRoundResult |-> Undefined,
             lastAction      |-> Undefined])

\* as handleConfirmResult, but the match is not finished after round 10
handleConfirmResult_neverEnds(r, teamId) ==
    LET myMatch   == r.match
        nextRound == myMatch.currentRound + 1
        isGameEnd == nextRound > TOTAL_ROUNDS
    IN  IF bothConfirmed(r, teamId)
        THEN updateMatchState(r,
                 [currentRound    |-> IF isGameEnd THEN myMatch.currentRound ELSE nextRound,
                  roundStatus     |-> "READY",
                  resultConfirmed |-> {},
                  lastRoundResult |-> Undefined,
                  lastAction      |-> Undefined])
        ELSE updateMatchState(r, [resultConfirmed |-> confirmedWith(r, teamId)])

handleConfirmResult(r, teamId) ==
    LET myMatch   == r.match
        nextRound == myMatch.currentRound + 1
        isGameEnd == nextRound > TOTAL_ROUNDS
    IN  IF bothConfirmed(r, teamId)
        THEN updateMatchState(r,
                 [currentRound    |-> IF isGameEnd THEN myMatch.currentRound ELSE nextRound,
                  roundStatus     |-> IF isGameEnd THEN "FINISHED" ELSE "READY",
                  resultConfirmed |-> {},
                  lastRoundResult |-> Undefined,
                  lastAction      |-> Undefined])
        ELSE updateMatchState(r, [resultConfirmed |-> confirmedWith(r, teamId)])

(***************************************************************************)
(* The strategy editor and the submission of a strategy.                   *)
(***************************************************************************)
\* the clients are the teams' own: none of them is the admin visiting a team
isAdminMode == FALSE

remainingChips(strat) == TOTAL_CHIPS - usedChipsOf(strat)

\* usedCards.length
usedCardsLength(strat) == Cardinality({i \in Rounds : strat[i].card # -1})

\* as isUsed, but the deck offers every card, placed or not
isUsed_never(strat, c) == FALSE

\* usedCards.includes(c)
isUsed(strat, c) == \E i \in Rounds : strat[i].card = c

handleSetChips(r, prev, roundIdx, delta) ==
    LET newChips     == prev[roundIdx].chips + delta
        currentTotal == usedChipsOf(prev)
    IN  IF r.status # "PREPARING" /\ ~isAdminMode THEN prev
        ELSE IF newChips < 1 THEN prev
        ELSE IF delta > 0 /\ currentTotal >= TOTAL_CHIPS THEN prev
        ELSE [prev EXCEPT ![roundIdx].chips = newChips]

\* item: the dragged card, from the deck or from the round item.round;
\* target: the round it is dropped on, -1 outside every round
handleDrop(r, prev, item, target) ==
    IF r.status # "PREPARING" /\ ~isAdminMode THEN prev
    ELSE IF target # -1
         THEN IF item.deck THEN [prev EXCEPT ![target].card = item.data]
              ELSE IF item.round # target
                   THEN [prev EXCEPT ![target].card = item.data,
                                     ![item.round].card = prev[target].card]
                   ELSE prev
         ELSE IF ~item.deck THEN [prev EXCEPT ![item.round].card = -1]
              ELSE prev

handleCardDoubleClick(r, prev, roundIdx) ==
    IF r.status # "PREPARING" /\ ~isAdminMode THEN prev
    ELSE [prev EXCEPT ![roundIdx].card = -1]

\* as submitAccepted, but nothing is validated
submitAccepted_always(strat) == TRUE

\* the strict validation of handleSubmitStrategy
submitAccepted(strat) ==
    /\ usedCardsLength(strat) = 10
    /\ remainingChips(strat) = 0

\* as confirmSubmit, but the team is not marked ready
confirmSubmit_noLock(r, teamId, strat) ==
    [r EXCEPT !.teams[teamId].strategy = strat]

confirmSubmit(r, teamId, strat) ==
    [r EXCEPT !.teams[teamId].isReady = TRUE, !.teams[teamId].strategy = strat]

\* as readOnly, but the board of a ready team stays editable
readOnly_never(r, teamId) == FALSE

\* BlueGameBoard readOnly
readOnly(r, teamId) == r.teams[teamId].isReady /\ ~isAdminMode

(***************************************************************************)
(* Actions.                                                                *)
(***************************************************************************)
Op(name, teamId) == [op |-> name, team |-> teamId]

\* the devices: two members of team A, one of team B, and one member of a
\* team that plays the second match of the room
Clients == {"a1", "a2", "b1", "c1"}

\* a device after mount: it holds the rooms last delivered, no steal modal
\* is open and no AI request is pending
newClient == [snap |-> Undefined, lag |-> 0, modal |-> Undefined, ai |-> Undefined]

\* useEffect on [team]: the editor takes over the stored strategy of its team
syncStrategy(local, r) ==
    [t \in Teams |->
        IF Len(r.teams[t].strategy) = TOTAL_ROUNDS THEN r.teams[t].strategy ELSE local[t]]

\* the effect runs when a write has replaced the room the clients hold
syncedAfter(local, r, written) ==
    IF written = r THEN local ELSE syncStrategy(local, written)

\* what a step outside the editor does to the editor of every client
EditorSynced ==
    /\ editorStrategy' = syncedAfter(editorStrategy, room, room')
    /\ UNCHANGED <<submitConfirmOpen, clients>>

LocalUnchanged ==
    /\ UNCHANGED <<stealModalOpen, neededChips, tempStrategy>>
    /\ EditorSynced

\* the steal modal covers the whole view of the client that opened it
NoModal(teamId) == ~stealModalOpen[teamId] /\ ~submitConfirmOpen[teamId]

Init ==
    /\ \E ka \in 1 .. MaxPlan, kb \in 1 .. MaxPlan, cb \in 0 .. MaxCardPlan :
          room = [status |-> "PLAYING",
                  teams |-> [t \in Teams |->
                               IF t = teamAId
                               THEN NewTeam(t, MakeStrategy(CardPlan(0), ChipPlan(ka)))
                               ELSE NewTeam(t, MakeStrategy(CardPlan(cb), ChipPlan(kb)))],
                  match |-> NewMatch]
    /\ \A t \in Teams :
          /\ isSetupComplete(room.teams[t].strategy)
          /\ cardsDistinct(room.teams[t].strategy)
          /\ \A i \in Rounds : room.teams[t].strategy[i].card \in CARDS
    /\ stealModalOpen = [t \in Teams |-> FALSE]
    /\ neededChips = [t \in Teams |-> 0]
    /\ tempStrategy = [t \in Teams |-> <<>>]
    /\ editorStrategy = [t \in Teams |-> room.teams[t].strategy]
    /\ submitConfirmOpen = [t \in Teams |-> FALSE]
    /\ clients = [c \in Clients |-> newClient]
    /\ lastOp = Op("init", None)

ReadyEffect(t) ==
    /\ room' = readyEffect(room, t)
    /\ lastOp' = Op("ReadyEffect", t)
    /\ LocalUnchanged

Fold(t) ==
    /\ NoModal(t)
    /\ room' = handleFold(room, t)
    /\ lastOp' = Op("Fold", t)
    /\ LocalUnchanged

Call(t) ==
    /\ NoModal(t)
    /\ room' = handleCall(room, t)
    /\ lastOp' = Op("Call", t)
    /\ IF callOpensSteal(room, t)
       THEN /\ neededChips' = [neededChips EXCEPT ![t] = callDiff(room, t) - room.teams[t].winnings]
            /\ tempStrategy' = [tempStrategy EXCEPT ![t] = room.teams[t].strategy]
            /\ stealModalOpen' = [stealModalOpen EXCEPT ![t] = TRUE]
       ELSE UNCHANGED <<stealModalOpen, neededChips, tempStrategy>>
    /\ EditorSynced

\* the "-1" button of a round the steal modal renders
AdjustTempChips(t) ==
    /\ stealModalOpen[t]
    /\ \E roundIdx \in futureRounds(room) :
          tempStrategy' = [tempStrategy EXCEPT
              ![t] = adjustTempChips(room, t, @, neededChips[t], roundIdx, -1)]
    /\ lastOp' = Op("AdjustTempChips", t)
    /\ UNCHANGED <<room, stealModalOpen, neededChips>>
    /\ EditorSynced

\* the cancel button of the steal modal
CancelSteal(t) ==
    /\ stealModalOpen[t]
    /\ stealModalOpen' = [stealModalOpen EXCEPT ![t] = FALSE]
    /\ lastOp' = Op("CancelSteal", t)
    /\ UNCHANGED <<room, neededChips, tempStrategy>>
    /\ EditorSynced

\* the confirm button of the steal modal, disabled unless canConfirmSteal
ConfirmSteal(t) ==
    /\ stealModalOpen[t]
    /\ canConfirmSteal(room, t, tempStrategy[t], neededChips[t])
    /\ room' = confirmSteal(room, t, tempStrategy[t])
    /\ tempStrategy' = [tempStrategy EXCEPT ![t] = stealStrategy(room, t, @)]
    /\ stealModalOpen' = [stealModalOpen EXCEPT ![t] = FALSE]
    /\ lastOp' = Op("ConfirmSteal", t)
    /\ UNCHANGED neededChips
    /\ EditorSynced

Showdown(t) ==
    /\ NoModal(t)
    /\ room' = handleShowdown(room, t)
    /\ lastOp' = Op("Showdown", t)
    /\ LocalUnchanged

\* a click on the result modal's button: nothing happens unless it is enabled
Confirm(t) ==
    /\ NoModal(t)
    /\ room' = IF confirmButtonEnabled(room, t) THEN handleConfirmResult(room, t) ELSE room
    /\ lastOp' = Op("Confirm", t)
    /\ LocalUnchanged

Next ==
    \E t \in Teams :
        \/ ReadyEffect(t)
        \/ Fold(t)
        \/ Call(t)
        \/ AdjustTempChips(t)
        \/ CancelSteal(t)
        \/ ConfirmSteal(t)
        \/ Showdown(t)
        \/ Confirm(t)

Spec == Init /\ [][Next]_vars

(***************************************************************************)
(* The preparation of a match: team A has submitted, team B is still in    *)
(* the editor, and the admin may start the game at any time.               *)
(***************************************************************************)
\* the rounds whose cards the editor of the model works on
EditRounds == {i \in Rounds : i > TOTAL_ROUNDS - EditSpan}

\* the rounds whose chips the editor of the model works on
ChipRounds == {TOTAL_ROUNDS - 1, TOTAL_ROUNDS}

\* the draft team B starts from: the cards of the rounds before EditRounds
\* placed in order, the chips of plan MaxPlan with ChipsLeft of them unplaced
draftStrategy ==
    [i \in Rounds |->
        [round |-> i,
         card  |-> IF i \in EditRounds THEN -1 ELSE CardPlan(0)[i],
         chips |-> ChipPlan(MaxPlan)[i] - (IF i = TOTAL_ROUNDS THEN ChipsLeft ELSE 0)]]

\* the drafts the editor of the model stays within
inEditBounds(strat) ==
    \A i \in Rounds :
        /\ strat[i].chips <= ChipPlan(MaxPlan)[i]
        /\ ChipPlan(MaxPlan)[i] - strat[i].chips <= ChipsLeft

\* the PREPARING view is rendered and the submit confirmation does not cover it
EditorOpen(t) == room.status = "PREPARING" /\ ~submitConfirmOpen[t]

EditorStep(t, name, next) ==
    /\ inEditBounds(next)
    /\ editorStrategy' = [editorStrategy EXCEPT ![t] = next]
    /\ lastOp' = Op(name, t)
    /\ UNCHANGED <<room, stealModalOpen, neededChips, tempStrategy, submitConfirmOpen, clients>>

SetupInit ==
    /\ room = [status |-> "PREPARING",
               teams  |-> [t \in Teams |->
                             IF t = teamAId
                             THEN NewTeam(t, MakeStrategy(CardPlan(0), ChipPlan(1)))
                             ELSE createdTeam(t)],
               match  |-> NewMatch]
    /\ stealModalOpen = [t \in Teams |-> FALSE]
    /\ neededChips = [t \in Teams |-> 0]
    /\ tempStrategy = [t \in Teams |-> <<>>]
    /\ editorStrategy = [t \in Teams |->
                            IF t = teamAId THEN room.teams[t].strategy ELSE draftStrategy]
    /\ submitConfirmOpen = [t \in Teams |-> FALSE]
    /\ clients = [c \in Clients |-> newClient]
    /\ lastOp = Op("init", None)

\* the - and + buttons of a round of the board
SetChips(t) ==
    /\ EditorOpen(t)
    /\ ~readOnly(room, t)
    /\ \E roundIdx \in ChipRounds, delta \in {-1, 1} :
          EditorStep(t, "SetChips", handleSetChips(room, editorStrategy[t], roundIdx, delta))

\* a card of the deck that no round holds is dragged onto a round or dropped outside
DropFromDeck(t) ==
    /\ EditorOpen(t)
    /\ ~room.teams[t].isReady \/ isAdminMode
    /\ \E c \in CARDS, target \in EditRounds \cup {-1} :
          /\ ~isUsed(editorStrategy[t], c)
          /\ EditorStep(t, "DropFromDeck",
                 handleDrop(room, editorStrategy[t],
                            [deck |-> TRUE, round |-> -1, data |-> c], target))

\* the card of a round is dragged onto a round or dropped outside
DropFromRound(t) ==
    /\ EditorOpen(t)
    /\ ~readOnly(room, t)
    /\ \E source \in EditRounds, target \in EditRounds \cup {-1} :
          /\ editorStrategy[t][source].card # -1
          /\ EditorStep(t, "DropFromRound",
                 handleDrop(room, editorStrategy[t],
                            [deck |-> FALSE, round |-> source,
                             data |-> editorStrategy[t][source].card], target))

CardDoubleClick(t) ==
    /\ EditorOpen(t)
    /\ ~readOnly(room, t)
    /\ \E roundIdx \in EditRounds :
          /\ editorStrategy[t][roundIdx].card # -1
          /\ EditorStep(t, "CardDoubleClick",
                 handleCardDoubleClick(room, editorStrategy[t], roundIdx))

\* handleSubmitStrategy: the submit button of the PREPARING view
Submit(t) ==
    /\ EditorOpen(t)
    /\ room' = IF isAdminMode THEN confirmSubmit(room, t, editorStrategy[t]) ELSE room
    /\ submitConfirmOpen' =
          [submitConfirmOpen EXCEPT
              ![t] = ~isAdminMode /\ submitAccepted(editorStrategy[t])]
    /\ editorStrategy' = syncedAfter(editorStrategy, room, room')
    /\ lastOp' = Op("Submit", t)
    /\ UNCHANGED <<stealModalOpen, neededChips, tempStrategy, clients>>

\* the NO button of the submit confirmation
CancelSubmit(t) ==
    /\ submitConfirmOpen[t]
    /\ submitConfirmOpen' = [submitConfirmOpen EXCEPT ![t] = FALSE]
    /\ lastOp' = Op("CancelSubmit", t)
    /\ UNCHANGED <<room, stealModalOpen, neededChips, tempStrategy, editorStrategy, clients>>

\* the YES button of the submit confirmation
ConfirmSubmit(t) ==
    /\ submitConfirmOpen[t]
    /\ room' = confirmSubmit(room, t, editorStrategy[t])
    /\ submitConfirmOpen' = [submitConfirmOpen EXCEPT ![t] = FALSE]
    /\ editorStrategy' = syncedAfter(editorStrategy, room, room')
    /\ lastOp' = Op("ConfirmSubmit", t)
    /\ UNCHANGED <<stealModalOpen, neededChips, tempStrategy, clients>>

\* the start button of the admin dashboard
AdminStart ==
    /\ room.status = "PREPARING"
    /\ room' = [room EXCEPT !.status = "PLAYING"]
    /\ lastOp' = Op("AdminStart", None)
    /\ LocalUnchanged

SetupNext ==
    \/ \E t \in Teams :
          \/ SetChips(t)
          \/ DropFromDeck(t)
          \/ DropFromRound(t)
          \/ CardDoubleClick(t)
          \/ Submit(t)
          \/ CancelSubmit(t)
          \/ ConfirmSubmit(t)
    \/ AdminStart
    \/ Next

SetupSpec == SetupInit /\ [][SetupNext]_vars

(***************************************************************************)
(* The state the properties speak about.                                   *)
(***************************************************************************)
(***************************************************************************)
(* The editor of a team that has stored nothing yet: it starts from the    *)
(* initial strategy.                                                       *)
(***************************************************************************)
\* Array(TOTAL_ROUNDS).fill(null).map((_, i) => ({ round: i + 1, card: -1, chips: 1 }))
initialStrategy == [i \in Rounds |-> [round |-> i, card |-> -1, chips |-> 1]]

\* the drafts this editor stays within: the rounds before the last two are
\* filled in order with their own card, the cards of the last two rounds go
\* anywhere in these two rounds, and chips are put on the last two rounds
inDraftBounds(strat) ==
    /\ \A i \in Rounds \ ChipRounds :
          /\ strat[i].card \in {-1, i - 1}
          /\ (strat[i].card # -1 /\ i > 1) => strat[i - 1].card # -1
          /\ strat[i].chips = 1
    /\ \A i \in ChipRounds : strat[i].card = -1 \/ strat[i].card + 1 \in ChipRounds
    /\ strat[TOTAL_ROUNDS - 1].chips <= 1 + ChipsLeft

DraftStep(t, name, next) ==
    /\ inDraftBounds(next)
    /\ editorStrategy' = [editorStrategy EXCEPT ![t] = next]
    /\ lastOp' = Op(name, t)
    /\ UNCHANGED <<room, stealModalOpen, neededChips, tempStrategy, submitConfirmOpen, clients>>

EditorInit ==
    /\ room = [status |-> "PREPARING",
               teams  |-> [t \in Teams |->
                             IF t = teamAId
                             THEN NewTeam(t, MakeStrategy(CardPlan(0), ChipPlan(1)))
                             ELSE createdTeam(t)],
               match  |-> NewMatch]
    /\ stealModalOpen = [t \in Teams |-> FALSE]
    /\ neededChips = [t \in Teams |-> 0]
    /\ tempStrategy = [t \in Teams |-> <<>>]
    /\ editorStrategy = [t \in Teams |->
                            IF Len(room.teams[t].strategy) = TOTAL_ROUNDS
                            THEN room.teams[t].strategy ELSE initialStrategy]
    /\ submitConfirmOpen = [t \in Teams |-> FALSE]
    /\ clients = [c \in Clients |-> newClient]
    /\ lastOp = Op("init", None)

\* the - and + buttons of a round of the board
DraftSetChips(t) ==
    /\ EditorOpen(t)
    /\ ~readOnly(room, t)
    /\ \E roundIdx \in Rounds, delta \in {-1, 1} :
          DraftStep(t, "SetChips", handleSetChips(room, editorStrategy[t], roundIdx, delta))

\* a card of the deck that no round holds is dragged onto a round or dropped outside
DraftDropFromDeck(t) ==
    /\ EditorOpen(t)
    /\ ~room.teams[t].isReady \/ isAdminMode
    /\ \E c \in CARDS, target \in Rounds \cup {-1} :
          /\ ~isUsed(editorStrategy[t], c)
          /\ DraftStep(t, "DropFromDeck",
                 handleDrop(room, editorStrategy[t],
                            [deck |-> TRUE, round |-> -1, data |-> c], target))

\* the card of a round is dragged onto a round or dropped outside
DraftDropFromRound(t) ==
    /\ EditorOpen(t)
    /\ ~readOnly(room, t)
    /\ \E source \in Rounds, target \in Rounds \cup {-1} :
          /\ editorStrategy[t][source].card # -1
          /\ DraftStep(t, "DropFromRound",
                 handleDrop(room, editorStrategy[t],
                            [deck |-> FALSE, round |-> source,
                             data |-> editorStrategy[t][source].card], target))

DraftCardDoubleClick(t) ==
    /\ EditorOpen(t)
    /\ ~readOnly(room, t)
    /\ \E roundIdx \in Rounds :
          /\ editorStrategy[t][roundIdx].card # -1
          /\ DraftStep(t, "CardDoubleClick",
                 handleCardDoubleClick(room, editorStrategy[t], roundIdx))

EditorNext ==
    \E t \in Teams :
        \/ DraftSetChips(t)
        \/ DraftDropFromDeck(t)
        \/ DraftDropFromRound(t)
        \/ DraftCardDoubleClick(t)

EditorSpec == EditorInit /\ [][EditorNext]_vars

(***************************************************************************)
(* Several devices on one room.  Every device holds the rooms its          *)
(* subscription delivered last; a handler computes the new room from what  *)
(* its device holds, and the write stores that room as a whole.            *)
(***************************************************************************)
\* the devices left behind by a write, at most
MaxStale == 1

\* the writes a device is left behind by, at most
MaxLag == 2

\* the rounds the devices play
MaxConcRound == 2

\* the AI requests the teams of a match make, all together
MaxHelps == 1

teamCId == "tC"

teamDId == "tD"

AllTeams == Teams \cup {teamCId, teamDId}

\* the team whose view the device shows
teamOf(c) == IF c \in {"a1", "a2"} THEN teamAId ELSE IF c = "b1" THEN teamBId ELSE teamCId

\* myMatchIdx of the device's view
myMatchIdx(c) == IF teamOf(c) \in Teams THEN 1 ELSE 2

\* the text the advice service answers with
AdviceTexts == {"advice"}

\* a match as autoMatch makes it, with the aiHelps it starts with and no advice
helpMatch(a, b) ==
    [teamAId |-> a, teamBId |-> b,
     aiHelps |-> [t \in {a, b} |-> 0],
     aiAdvice |-> [t \in {a, b} |-> Undefined]] @@ NewMatch

\* room.matches[myMatchIdx] is myMatch: the room as the view of the device reads it
viewOf(r, c) ==
    IF myMatchIdx(c) = 1 THEN r ELSE [r EXCEPT !.match = r.match2, !.match2 = r.match]

\* newMatches[myMatchIdx] = ...: the handler's room with its matches in their places
roomOf(v, c) ==
    IF myMatchIdx(c) = 1 THEN v ELSE [v EXCEPT !.match = v.match2, !.match2 = v.match]

\* as snapshotOf, but every device holds what the store holds
snapshotOf_current(c) == room

\* the room the device holds: the shared one, or an older one
snapshotOf(c) == IF clients[c].snap = Undefined THEN room ELSE clients[c].snap[1]

\* as saveRooms, but a team's winnings are added onto what the store holds
saveRooms_addsWinnings(stored, held, written) ==
    [written EXCEPT !.teams =
        [t \in AllTeams |->
            [written.teams[t] EXCEPT !.winnings =
                stored.teams[t].winnings + (written.teams[t].winnings - held.teams[t].winnings)]]]

\* set(roomsRef, rooms): what the store holds after the write
saveRooms(stored, held, written) == written

\* if (aiLoading || (myMatch.aiHelps?.[teamId] || 0) >= 3) return
helpRefused(r, teamId) == r.match.aiHelps[teamId] >= 3

\* as answerAIHelp, but the count is not raised
answerAIHelp_free(r, teamId, advice) ==
    updateMatchState(r,
        [aiAdvice |-> [r.match.aiAdvice EXCEPT ![teamId] = Some(advice)]])

\* handleAIHelp after the await: newCounts, newAdvice, updateMatchState
answerAIHelp(r, teamId, advice) ==
    updateMatchState(r,
        [aiHelps  |-> [r.match.aiHelps EXCEPT ![teamId] = @ + 1],
         aiAdvice |-> [r.match.aiAdvice EXCEPT ![teamId] = Some(advice)]])

closeAIHelp(r, teamId) ==
    IF r.match.aiAdvice[teamId] # Undefined
    THEN updateMatchState(r,
             [aiAdvice |-> [r.match.aiAdvice EXCEPT ![teamId] = Undefined]])
    ELSE r

\* no overlay covers the buttons of the device: the steal modal, the AI
\* loading modal, the advice modal
freeView(c) ==
    /\ clients[c].modal = Undefined
    /\ clients[c].ai = Undefined
    /\ viewOf(snapshotOf(c), c).match.aiAdvice[teamOf(c)] = Undefined

\* the devices that hold an older room
behind(cl) == {d \in DOMAIN cl : cl[d].snap # Undefined}

\* the round of the device's match is one of the rounds played
inRounds(c) == viewOf(snapshotOf(c), c).match.currentRound <= MaxConcRound

\* the step of a device: stale, it ran on a room older than the store's;
\* same, it wrote the room the store held already
ConcOp(name, c, held, written) ==
    [op |-> name, team |-> teamOf(c), client |-> c,
     stale |-> held # room,
     same  |-> written # held /\ written = room]

\* a handler of device c has run on the room it holds: held is that room,
\* written the room the handler made of it, local the device's own state after
\* it.  A handler that returns early writes nothing.  A write reaches the
\* store at once and every other device either at once or later.
ClientStep(c, name, held, written, local) ==
    /\ IF written = held
       THEN /\ room' = room
            /\ clients' = [clients EXCEPT ![c] = local]
       ELSE /\ room' = saveRooms(room, held, written)
            /\ \E late \in SUBSET (DOMAIN clients \ {c}) :
                  /\ clients' =
                        [d \in DOMAIN clients |->
                            IF d = c THEN [local EXCEPT !.snap = Undefined, !.lag = 0]
                            ELSE IF d \in late /\ snapshotOf(d) # room'
                                 THEN [clients[d] EXCEPT !.snap = Some(snapshotOf(d)),
                                                         !.lag = @ + 1]
                                 ELSE [clients[d] EXCEPT !.snap = Undefined, !.lag = 0]]
                  /\ Cardinality(behind(clients')) <= MaxStale
                  /\ \A d \in DOMAIN clients : clients'[d].lag <= MaxLag
    /\ lastOp' = ConcOp(name, c, held, written)
    /\ UNCHANGED <<stealModalOpen, neededChips, tempStrategy, editorStrategy,
                   submitConfirmOpen>>

\* 1 chip in every round, 2 more in round 2, the rest in the last round: what
\* the winner of a round 1 played with 1 chip each can just pay for
CallPlan ==
    [i \in Rounds |->
        1 + (IF i = 2 THEN 2 ELSE 0)
          + (IF i = TOTAL_ROUNDS THEN TOTAL_CHIPS - TOTAL_ROUNDS - 2 ELSE 0)]

\* the room the devices are on: two matches, four locked teams, play started.
\* The teams of the first match play the chips given, the teams of the second
\* match 1 chip in every round but the last.
concRoom(chipsA, chipsB) ==
    [status |-> "PLAYING",
     teams  |-> [t \in AllTeams |->
         IF t = teamAId THEN NewTeam(t, MakeStrategy(CardPlan(1), chipsA))
         ELSE IF t = teamBId THEN NewTeam(t, MakeStrategy(CardPlan(0), chipsB))
         ELSE NewTeam(t, MakeStrategy(CardPlan(IF t = teamCId THEN 0 ELSE 1),
                  ChipPlan(TOTAL_ROUNDS - 1)))],
     match  |-> helpMatch(teamAId, teamBId),
     match2 |-> helpMatch(teamCId, teamDId)]

\* team B is the turn owner of round 1 and cannot fund a Call
StealPlans == <<ChipPlan(0), ChipPlan(TOTAL_ROUNDS - 1)>>

\* team A wins round 1 and can fund its Call in round 2
FundedPlans == <<ChipPlan(TOTAL_ROUNDS - 1), CallPlan>>

\* team A is the turn owner of round 1 and cannot fund a Call
OwnTurnPlans == <<ChipPlan(TOTAL_ROUNDS - 1), ChipPlan(0)>>

\* the devices in devs have the view of their team open
DevicesInit(devs, plans) ==
    /\ \E p \in plans : room = concRoom(p[1], p[2])
    /\ stealModalOpen = [t \in Teams |-> FALSE]
    /\ neededChips = [t \in Teams |-> 0]
    /\ tempStrategy = [t \in Teams |-> <<>>]
    /\ editorStrategy = [t \in Teams |-> room.teams[t].strategy]
    /\ submitConfirmOpen = [t \in Teams |-> FALSE]
    /\ clients = [c \in devs |-> newClient]
    /\ lastOp = Op("init", None)

\* two devices of team A and one of team B play their match
ConcInit == DevicesInit({"a1", "a2", "b1"}, {StealPlans, FundedPlans})

\* onValue: the subscription hands the device the rooms of the store
Deliver(c) ==
    /\ clients[c].snap # Undefined
    /\ clients' = [clients EXCEPT ![c].snap = Undefined, ![c].lag = 0]
    /\ lastOp' = [op |-> "Deliver", team |-> teamOf(c), client |-> c,
                  stale |-> FALSE, same |-> FALSE]
    /\ UNCHANGED <<room, stealModalOpen, neededChips, tempStrategy, editorStrategy,
                   submitConfirmOpen>>

ClientReadyEffect(c) ==
    LET held == snapshotOf(c)
    IN  /\ inRounds(c)
        /\ ClientStep(c, "ReadyEffect", held,
               roomOf(readyEffect(viewOf(held, c), teamOf(c)), c), clients[c])

ClientFold(c) ==
    LET held == snapshotOf(c)
    IN  /\ inRounds(c)
        /\ freeView(c)
        /\ ClientStep(c, "Fold", held,
               roomOf(handleFold(viewOf(held, c), teamOf(c)), c), clients[c])

ClientCall(c) ==
    LET held == snapshotOf(c)
        v    == viewOf(held, c)
        t    == teamOf(c)
    IN  /\ inRounds(c)
        /\ freeView(c)
        /\ ClientStep(c, "Call", held, roomOf(handleCall(v, t), c),
               IF callOpensSteal(v, t)
               THEN [clients[c] EXCEPT
                        !.modal = Some([neededChips  |-> callDiff(v, t) - v.teams[t].winnings,
                                        tempStrategy |-> v.teams[t].strategy])]
               ELSE clients[c])

\* the "-1" button of a round the steal modal renders
ClientAdjustTempChips(c) ==
    LET held == snapshotOf(c)
        v    == viewOf(held, c)
    IN  /\ clients[c].modal # Undefined
        /\ \E roundIdx \in futureRounds(v) :
              ClientStep(c, "AdjustTempChips", held, held,
                  [clients[c] EXCEPT !.modal[1].tempStrategy =
                      adjustTempChips(v, teamOf(c), @, clients[c].modal[1].neededChips,
                                      roundIdx, -1)])

ClientCancelSteal(c) ==
    /\ clients[c].modal # Undefined
    /\ ClientStep(c, "CancelSteal", snapshotOf(c), snapshotOf(c),
           [clients[c] EXCEPT !.modal = Undefined])

ClientConfirmSteal(c) ==
    LET held == snapshotOf(c)
        v    == viewOf(held, c)
        m    == clients[c].modal[1]
    IN  /\ clients[c].modal # Undefined
        /\ canConfirmSteal(v, teamOf(c), m.tempStrategy, m.neededChips)
        /\ ClientStep(c, "ConfirmSteal", held,
               roomOf(confirmSteal(v, teamOf(c), m.tempStrategy), c),
               [clients[c] EXCEPT !.modal = Undefined])

ClientShowdown(c) ==
    LET held == snapshotOf(c)
    IN  /\ inRounds(c)
        /\ freeView(c)
        /\ ClientStep(c, "Showdown", held,
               roomOf(handleShowdown(viewOf(held, c), teamOf(c)), c), clients[c])

ClientConfirm(c) ==
    LET held == snapshotOf(c)
        v    == viewOf(held, c)
    IN  /\ inRounds(c)
        /\ freeView(c)
        /\ ClientStep(c, "Confirm", held,
               IF confirmButtonEnabled(v, teamOf(c))
               THEN roomOf(handleConfirmResult(v, teamOf(c)), c) ELSE held,
               clients[c])

\* the AI help button: the request goes out with the room the device holds
RequestHelp(c) ==
    LET held == snapshotOf(c)
        v    == viewOf(held, c)
    IN  /\ inRounds(c)
        /\ freeView(c)
        /\ v.match.roundStatus # "FINISHED"
        /\ v.match.aiHelps[v.match.teamAId] + v.match.aiHelps[v.match.teamBId] < MaxHelps
        /\ \A d \in DOMAIN clients : clients[d].ai = Undefined
        /\ ClientStep(c, "RequestHelp", held, held,
               IF helpRefused(v, teamOf(c)) THEN clients[c]
               ELSE [clients[c] EXCEPT !.ai = Some(held)])

\* the advice arrives: the handler goes on with the room it was started with
AnswerHelp(c) ==
    /\ clients[c].ai # Undefined
    /\ \E advice \in AdviceTexts :
          LET held == clients[c].ai[1]
          IN  ClientStep(c, "AnswerHelp", held,
                  roomOf(answerAIHelp(viewOf(held, c), teamOf(c), advice), c),
                  [clients[c] EXCEPT !.ai = Undefined])

\* the request fails: catch, alert
FailHelp(c) ==
    /\ clients[c].ai # Undefined
    /\ ClientStep(c, "FailHelp", clients[c].ai[1], clients[c].ai[1],
           [clients[c] EXCEPT !.ai = Undefined])

\* the advice modal is closed
CloseHelp(c) ==
    LET held == snapshotOf(c)
        v    == viewOf(held, c)
    IN  /\ clients[c].ai = Undefined
        /\ v.match.aiAdvice[teamOf(c)] # Undefined
        /\ ClientStep(c, "CloseHelp", held, roomOf(closeAIHelp(v, teamOf(c)), c),
               clients[c])

\* a step of the match on device c
PlayStep(c) ==
    \/ Deliver(c)
    \/ ClientReadyEffect(c)
    \/ ClientFold(c)
    \/ ClientCall(c)
    \/ ClientAdjustTempChips(c)
    \/ ClientCancelSteal(c)
    \/ ClientConfirmSteal(c)
    \/ ClientShowdown(c)
    \/ ClientConfirm(c)

ConcNext == \E c \in DOMAIN clients : PlayStep(c)

ConcSpec == ConcInit /\ [][ConcNext]_vars

\* one device of team A and one of team C, whose match is the second of the room
TwoMatchInit == DevicesInit({"a1", "c1"}, {OwnTurnPlans})

TwoMatchSpec == TwoMatchInit /\ [][ConcNext]_vars

\* a step of the AI help on device c
HelpStep(c) ==
    \/ RequestHelp(c)
    \/ AnswerHelp(c)
    \/ FailHelp(c)
    \/ CloseHelp(c)

\* one device of team A and one of team B play their match and ask for advice
HelpInit == DevicesInit({"a1", "b1"}, {StealPlans})

HelpNext == \E c \in DOMAIN clients : PlayStep(c) \/ HelpStep(c)

HelpSpec == HelpInit /\ [][HelpNext]_vars

match == room.match

\* the team whose client took the step into the primed state
actor == lastOp'.team

chipsOf(r, teamId) == r.teams[teamId].strategy[r.match.currentRound].chips

cardOf(r, teamId) == r.teams[teamId].strategy[r.match.currentRound].card

winningsOf(r, teamId) == r.teams[teamId].winnings

\* chipsA + chipsB + carryOver of the current round
potOf(r) == chipsOf(r, teamAId) + chipsOf(r, teamBId) + r.match.carryOver

other(teamId) == IF teamId = teamAId THEN teamBId ELSE teamAId

\* a step of the turn owner's Fold in DECISION
FoldStep ==
    /\ lastOp'.op = "Fold"
    /\ match.roundStatus = "DECISION"
    /\ match.turnOwner = actor

\* a step of a Showdown in SHOWDOWN
ShowdownStep ==
    /\ lastOp'.op = "Showdown"
    /\ match.roundStatus = "SHOWDOWN"

\* the RoundResult the step appended
appended == room'.match.history[Len(room'.match.history)]

TypeOK ==
    /\ match.currentRound \in Rounds
    /\ match.roundStatus \in {"READY", "DECISION", "SHOWDOWN", "RESULT", "FINISHED"}
    /\ match.turnOwner \in Teams \cup {None}
    /\ match.resultConfirmed \subseteq Teams
    /\ \A t \in Teams : room.teams[t].winnings \in Nat
    /\ stealModalOpen \in [Teams -> BOOLEAN]
    /\ submitConfirmOpen \in [Teams -> BOOLEAN]
    /\ room.status \in {"PREPARING", "PLAYING"}

(***************************************************************************)
(* C1: currentRound stays in 1..10, never decreases, changes only by +1,   *)
(* and only in a Confirm step taken in RESULT at which both teams are true *)
(* in resultConfirmed, the confirmer's own entry included.                 *)
(***************************************************************************)
C1_RoundAdvance ==
    /\ match.currentRound \in 1 .. 10
    /\ [][/\ room'.match.currentRound \in 1 .. 10
          /\ room'.match.currentRound >= match.currentRound
          /\ room'.match.currentRound # match.currentRound =>
                /\ room'.match.currentRound = match.currentRound + 1
                /\ lastOp'.op = "Confirm"
                /\ match.roundStatus = "RESULT"
                /\ Teams \subseteq (match.resultConfirmed \cup {actor})]_vars

\* the second Confirm of round 1 has just moved the match to round 2
C1_Witness ==
    /\ lastOp.op = "Confirm"
    /\ match.currentRound = 2
    /\ match.roundStatus = "READY"
    /\ Len(match.history) = 1

(***************************************************************************)
(* C2: after a Fold by the turn owner in DECISION, carryOver is 0: the     *)
(* carry-over of earlier drawn rounds is paid out with the folded pot and  *)
(* is not counted again in a later pot.                                    *)
(***************************************************************************)
C2_FoldResetsCarryOver ==
    [][FoldStep => room'.match.carryOver = 0]_vars

(***************************************************************************)
(* C3: pot conservation.  For every Fold and every Showdown resolution the *)
(* winner's winnings increase by exactly potWon, and potWon = chipsA +     *)
(* chipsB + carryOverBefore; on a non-final draw potWon = 0, no winnings   *)
(* change and carryOverAfter = chipsA + chipsB + carryOverBefore.          *)
(***************************************************************************)
ResolveStep == FoldStep \/ ShowdownStep

DrawStep == ShowdownStep /\ cardOf(room, teamAId) = cardOf(room, teamBId)

\* the team the step pays: the folder's opponent, or the holder of the higher card
winnerOfStep ==
    IF FoldStep THEN other(actor)
    ELSE IF cardOf(room, teamAId) > cardOf(room, teamBId) THEN teamAId ELSE teamBId

WinnerPaid ==
    /\ appended.potWon = potOf(room)
    /\ winningsOf(room', winnerOfStep) = winningsOf(room, winnerOfStep) + appended.potWon

NonFinalDrawCarried ==
    /\ appended.potWon = 0
    /\ \A t \in Teams : winningsOf(room', t) = winningsOf(room, t)
    /\ room'.match.carryOver = potOf(room)

FinalDrawSplit ==
    /\ appended.potWon = 0
    /\ \A t \in Teams : 2 * (winningsOf(room', t) - winningsOf(room, t)) = potOf(room)

\* the claim as stated: the non-final draw is the only exception
C3_PotConservation_Stated ==
    [][ResolveStep =>
          IF DrawStep /\ match.currentRound # 10
          THEN NonFinalDrawCarried
          ELSE WinnerPaid]_vars

\* C3 as amended: a draw in round 10 is an exception too, there potWon = 0 and
\* each team's winnings increase by half of chipsA + chipsB + carryOverBefore
C3_PotConservation ==
    [][ResolveStep =>
          IF DrawStep
          THEN IF match.currentRound # 10 THEN NonFinalDrawCarried ELSE FinalDrawSplit
          ELSE WinnerPaid]_vars

\* a draw in round 10 has just split a pot that holds a carry-over
C3_Witness ==
    /\ lastOp.op = "Showdown"
    /\ match.roundStatus = "RESULT"
    /\ match.currentRound = 10
    /\ match.lastRoundResult # Undefined
    /\ match.lastRoundResult[1].result = "DRAW"
    /\ match.lastRoundResult[1].potWon = 0
    /\ match.carryOver = 0
    /\ \E h \in 1 .. 9 : match.history[h].result = "DRAW" /\ match.history[h].round = 9
    /\ \A t \in Teams : winningsOf(room, t) > match.lastRoundResult[1].teamAChips

(***************************************************************************)
(* C4: the READY evaluation of round r compares the two teams' chips of    *)
(* round r: equal chips lead to SHOWDOWN with no turn owner, unequal chips *)
(* to DECISION with the team holding strictly fewer chips as turn owner.   *)
(* currentRound, winnings, strategies and carryOver are unchanged.         *)
(***************************************************************************)
ReadyStep ==
    /\ lastOp'.op = "ReadyEffect"
    /\ actor = teamAId
    /\ match.roundStatus = "READY"

C4_ReadyEvaluation ==
    [][ReadyStep =>
          /\ IF chipsOf(room, teamAId) = chipsOf(room, teamBId)
             THEN /\ room'.match.roundStatus = "SHOWDOWN"
                  /\ room'.match.turnOwner = None
             ELSE /\ room'.match.roundStatus = "DECISION"
                  /\ room'.match.turnOwner \in Teams
                  /\ chipsOf(room, room'.match.turnOwner)
                       < chipsOf(room, other(room'.match.turnOwner))
          /\ room'.match.currentRound = match.currentRound
          /\ room'.match.carryOver = match.carryOver
          /\ room'.teams = room.teams]_vars

\* the evaluation has just handed the decision to team B, which holds fewer chips
C4_Witness ==
    /\ lastOp = Op("ReadyEffect", teamAId)
    /\ match.roundStatus = "DECISION"
    /\ match.turnOwner = teamBId
    /\ chipsOf(room, teamBId) < chipsOf(room, teamAId)

(***************************************************************************)
(* C5: in DECISION a Fold or Call by the team that is not the turn owner   *)
(* changes neither the Match nor a Team record; in every other state a     *)
(* Fold or Call by either team changes nothing.                            *)
(***************************************************************************)
C5_IllegalActorNoOp ==
    [][(/\ lastOp'.op \in {"Fold", "Call"}
        /\ ~(match.roundStatus = "DECISION" /\ match.turnOwner = actor))
          => /\ room' = room
             /\ stealModalOpen' = stealModalOpen]_vars

\* the team that does not own the turn has just tried to fold in DECISION
C5_Witness ==
    /\ lastOp.op = "Fold"
    /\ match.roundStatus = "DECISION"
    /\ match.turnOwner = other(lastOp.team)

(***************************************************************************)
(* C6: a Fold by the turn owner in DECISION of round r adds own chips[r] + *)
(* opponent chips[r] + carryOver to the opponent's winnings and leaves the *)
(* folder's winnings unchanged; the appended RoundResult is A_FOLDED when  *)
(* the folder is team A and B_FOLDED otherwise, with potWon that pot; the  *)
(* match moves to RESULT with currentRound unchanged, the turn owner       *)
(* cleared and resultConfirmed empty.                                      *)
(***************************************************************************)
C6_Fold ==
    [][FoldStep =>
          /\ winningsOf(room', other(actor)) = winningsOf(room, other(actor)) + potOf(room)
          /\ winningsOf(room', actor) = winningsOf(room, actor)
          /\ Len(room'.match.history) = Len(match.history) + 1
          /\ appended.result = (IF actor = match.teamAId THEN "A_FOLDED" ELSE "B_FOLDED")
          /\ appended.potWon = potOf(room)
          /\ room'.match.roundStatus = "RESULT"
          /\ room'.match.currentRound = match.currentRound
          /\ room'.match.turnOwner = None
          /\ room'.match.resultConfirmed = {}]_vars

\* team B has just folded a pot that holds a carry-over
C6_Witness ==
    /\ lastOp = Op("Fold", teamBId)
    /\ match.roundStatus = "RESULT"
    /\ match.lastRoundResult # Undefined
    /\ match.lastRoundResult[1].result = "B_FOLDED"
    /\ match.lastRoundResult[1].potWon
         > match.lastRoundResult[1].teamAChips + match.lastRoundResult[1].teamBChips

(***************************************************************************)
(* C7: a Call by the turn owner in DECISION with diff = opponent chips[r]  *)
(* - own chips[r] (diff > 0) and own winnings >= diff lowers own winnings  *)
(* by exactly diff and raises own chips[r] by exactly diff, so that both   *)
(* teams' chips of round r are equal; no other round's chips and nothing   *)
(* of the opponent change; the match moves to SHOWDOWN, turn owner cleared.*)
(***************************************************************************)
CallStep ==
    /\ lastOp'.op = "Call"
    /\ match.roundStatus = "DECISION"
    /\ match.turnOwner = actor

diffOf(r, teamId) == chipsOf(r, other(teamId)) - chipsOf(r, teamId)

C7_FundedCall ==
    [][(CallStep /\ winningsOf(room, actor) >= diffOf(room, actor)) =>
          /\ diffOf(room, actor) > 0
          /\ winningsOf(room', actor) = winningsOf(room, actor) - diffOf(room, actor)
          /\ chipsOf(room', actor) = chipsOf(room, actor) + diffOf(room, actor)
          /\ chipsOf(room', actor) = chipsOf(room', other(actor))
          /\ \A i \in Rounds \ {match.currentRound} :
                room'.teams[actor].strategy[i] = room.teams[actor].strategy[i]
          /\ room'.teams[actor].strategy[match.currentRound].card = cardOf(room, actor)
          /\ room'.teams[other(actor)] = room.teams[other(actor)]
          /\ room'.match.roundStatus = "SHOWDOWN"
          /\ room'.match.currentRound = match.currentRound
          /\ room'.match.turnOwner = None]_vars

\* a Call paid from winnings has just equalised the chips of the round
C7_Witness ==
    /\ lastOp.op = "Call"
    /\ match.roundStatus = "SHOWDOWN"
    /\ match.lastAction = Some([teamId |-> lastOp.team, action |-> "CALL"])
    /\ winningsOf(room, lastOp.team) > 0

(***************************************************************************)
(* C8: the steal sub-protocol.  Only rounds with an index greater than     *)
(* currentRound are reduced, one chip per step, and no future round drops  *)
(* below 1 chip; the steal is accepted only when stolenTotal >= needed     *)
(* (needed = diff - own winnings); on acceptance own winnings become 0,    *)
(* own chips of the current round rise by exactly diff, each chosen future *)
(* round is lowered by the amount taken from it, and the match moves to    *)
(* SHOWDOWN.                                                               *)
(***************************************************************************)
AdjustStep == lastOp'.op = "AdjustTempChips"

StealStep == lastOp'.op = "ConfirmSteal"

\* what the modal of the team has taken from round i of the written strategy
takenFrom(teamId, i) ==
    room.teams[teamId].strategy[i].chips - tempStrategy[teamId][i].chips

RECURSIVE sumTaken(_, _)
sumTaken(teamId, i) ==
    IF i = 0 THEN 0
    ELSE (IF i > match.currentRound THEN takenFrom(teamId, i) ELSE 0)
            + sumTaken(teamId, i - 1)

stolenTotal(teamId) == sumTaken(teamId, 10)

C8_Steal ==
    /\ [][AdjustStep =>
             /\ \A i \in Rounds :
                   tempStrategy'[actor][i].chips # tempStrategy[actor][i].chips =>
                      /\ i > match.currentRound
                      /\ tempStrategy'[actor][i].chips = tempStrategy[actor][i].chips - 1
             /\ Cardinality({i \in Rounds :
                   tempStrategy'[actor][i] # tempStrategy[actor][i]}) <= 1
             /\ \A i \in Rounds : tempStrategy'[actor][i].chips >= 1]_vars
    /\ [][StealStep =>
             /\ match.roundStatus = "DECISION"
             /\ match.turnOwner = actor
             /\ \A i \in Rounds : takenFrom(actor, i) >= 0
             /\ \A i \in Rounds : i <= match.currentRound => takenFrom(actor, i) = 0
             /\ stolenTotal(actor) >= diffOf(room, actor) - winningsOf(room, actor)
             /\ winningsOf(room', actor) = 0
             /\ chipsOf(room', actor) = chipsOf(room, actor) + diffOf(room, actor)
             /\ \A i \in Rounds \ {match.currentRound} :
                   /\ room'.teams[actor].strategy[i].chips
                        = room.teams[actor].strategy[i].chips - takenFrom(actor, i)
                   /\ room'.teams[actor].strategy[i].chips >= 1
             /\ \A i \in Rounds :
                   room'.teams[actor].strategy[i].card = room.teams[actor].strategy[i].card
             /\ room'.match.roundStatus = "SHOWDOWN"]_vars

\* in round 2, where the turn owner held 1 chip, a steal has just been accepted
\* that covered less than the difference: the rest was paid from winnings
C8_Witness ==
    /\ lastOp.op = "ConfirmSteal"
    /\ match.roundStatus = "SHOWDOWN"
    /\ match.currentRound = 2
    /\ winningsOf(room, lastOp.team) = 0
    /\ chipsOf(room, teamAId) = chipsOf(room, teamBId)
    /\ neededChips[lastOp.team] > 0
    /\ neededChips[lastOp.team] < chipsOf(room, lastOp.team) - 1

\* in round 2 a steal from two future rounds has just been accepted: against
\* the chip plan it started from, the team holds fewer chips in two of them
TwoRoundSteal ==
    /\ lastOp.op = "ConfirmSteal"
    /\ match.currentRound = 2
    /\ \E k \in 1 .. MaxPlan :
          /\ \A i \in 3 .. 10 : room.teams[lastOp.team].strategy[i].chips <= ChipPlan(k)[i]
          /\ Cardinality({i \in 3 .. 10 :
                room.teams[lastOp.team].strategy[i].chips < ChipPlan(k)[i]}) = 2

(***************************************************************************)
(* C9: an underfunded Call (own winnings < diff), every intermediate steal *)
(* adjustment and a cancelled steal leave the shared Match and Team        *)
(* records unchanged: the match stays in DECISION with the same turn       *)
(* owner, winnings and strategies; no partially applied steal is written.  *)
(***************************************************************************)
C9_StealWritesNothing ==
    [][(\/ CallStep /\ winningsOf(room, actor) < diffOf(room, actor)
        \/ lastOp'.op \in {"AdjustTempChips", "CancelSteal"})
          => /\ room' = room
             /\ room'.match.roundStatus = "DECISION"
             /\ room'.match.turnOwner = actor]_vars

\* a steal has just been cancelled after chips were taken in the modal
C9_Witness ==
    /\ lastOp.op = "CancelSteal"
    /\ match.roundStatus = "DECISION"
    /\ match.turnOwner = lastOp.team
    /\ \E i \in Rounds :
          tempStrategy[lastOp.team][i].chips < room.teams[lastOp.team].strategy[i].chips

(***************************************************************************)
(* C10: a Showdown with unequal cards has exactly one winner, the team     *)
(* with the higher card: its winnings increase by pot = chipsA + chipsB +  *)
(* carryOver and its score by 1, the other team's winnings and score are   *)
(* unchanged, the RoundResult is A_WON or B_WON accordingly with potWon =  *)
(* pot, and carryOver becomes 0.  For every pair of cards in 0..9 the      *)
(* outcome is exactly one of A_WON, B_WON, DRAW, with DRAW iff the cards   *)
(* are equal.                                                              *)
(***************************************************************************)
scoreOf(r, teamId) == IF teamId = r.match.teamAId THEN r.match.teamAScore ELSE r.match.teamBScore

higherCard == IF cardOf(room, teamAId) > cardOf(room, teamBId) THEN teamAId ELSE teamBId

C10_Showdown ==
    /\ \A a, b \in 0 .. 9 :
          /\ showdownWinner(a, b) \in {"A", "B", "DRAW"}
          /\ showdownWinner(a, b) = "DRAW" <=> a = b
          /\ showdownWinner(a, b) = "A" <=> a > b
          /\ showdownWinner(a, b) = "B" <=> b > a
    /\ [][ShowdownStep =>
             /\ appended.result \in {"A_WON", "B_WON", "DRAW"}
             /\ appended.result = "DRAW" <=> cardOf(room, teamAId) = cardOf(room, teamBId)
             /\ cardOf(room, teamAId) # cardOf(room, teamBId) =>
                   /\ winningsOf(room', higherCard) = winningsOf(room, higherCard) + potOf(room)
                   /\ scoreOf(room', higherCard) = scoreOf(room, higherCard) + 1
                   /\ winningsOf(room', other(higherCard)) = winningsOf(room, other(higherCard))
                   /\ scoreOf(room', other(higherCard)) = scoreOf(room, other(higherCard))
                   /\ appended.result = (IF higherCard = teamAId THEN "A_WON" ELSE "B_WON")
                   /\ appended.potWon = potOf(room)
                   /\ room'.match.carryOver = 0]_vars

\* team A has just won, with the higher card, a pot that holds a carry-over
C10_Witness ==
    /\ lastOp.op = "Showdown"
    /\ match.roundStatus = "RESULT"
    /\ match.lastRoundResult # Undefined
    /\ match.lastRoundResult[1].result = "A_WON"
    /\ match.lastRoundResult[1].teamACard > match.lastRoundResult[1].teamBCard
    /\ match.lastRoundResult[1].potWon
         > match.lastRoundResult[1].teamAChips + match.lastRoundResult[1].teamBChips
    /\ match.teamAScore = 1
    /\ match.carryOver = 0

(***************************************************************************)
(* C11: a Showdown with equal cards in a round other than round 10 changes *)
(* neither team's winnings nor score, makes carryOver the whole pot chipsA *)
(* + chipsB + previous carryOver and appends DRAW with potWon = 0; the     *)
(* carry-over then waits unchanged for the next resolution, whose pot      *)
(* (what is paid out or carried on) includes it.                           *)
(***************************************************************************)
\* what a resolution hands out: the winnings it adds, and what a draw carries on
resolvedAmount ==
    (winningsOf(room', teamAId) - winningsOf(room, teamAId))
      + (winningsOf(room', teamBId) - winningsOf(room, teamBId))
      + (IF DrawStep /\ match.currentRound # 10 THEN room'.match.carryOver ELSE 0)

C11_NonFinalDraw ==
    /\ [][(DrawStep /\ match.currentRound # 10) =>
             /\ \A t \in Teams :
                   /\ winningsOf(room', t) = winningsOf(room, t)
                   /\ scoreOf(room', t) = scoreOf(room, t)
             /\ room'.match.carryOver
                  = chipsOf(room, teamAId) + chipsOf(room, teamBId) + match.carryOver
             /\ appended.result = "DRAW"
             /\ appended.potWon = 0]_vars
    /\ [][~ShowdownStep => room'.match.carryOver = match.carryOver]_vars
    /\ [][ResolveStep =>
             resolvedAmount
               = chipsOf(room, teamAId) + chipsOf(room, teamBId) + match.carryOver]_vars

\* a second draw in a row has just carried forward a pot that held the first
C11_Witness ==
    /\ lastOp.op = "Showdown"
    /\ match.roundStatus = "RESULT"
    /\ match.currentRound = 2
    /\ match.lastRoundResult # Undefined
    /\ match.lastRoundResult[1].result = "DRAW"
    /\ match.history[1].result = "DRAW"
    /\ match.carryOver = match.history[1].teamAChips + match.history[1].teamBChips
                           + match.history[2].teamAChips + match.history[2].teamBChips
    /\ \A t \in Teams : winningsOf(room, t) = 0

(***************************************************************************)
(* C12: a Showdown with equal cards in round 10 splits the pot chipsA +    *)
(* chipsB + carryOver evenly: each team's winnings increase by exactly     *)
(* half the pot, carryOver ends at 0 and the RoundResult is DRAW with      *)
(* potWon = 0.                                                             *)
(***************************************************************************)
C12_FinalDraw ==
    [][(DrawStep /\ match.currentRound = 10) =>
          /\ \A t \in Teams :
                2 * (winningsOf(room', t) - winningsOf(room, t))
                  = chipsOf(room, teamAId) + chipsOf(room, teamBId) + match.carryOver
          /\ room'.match.carryOver = 0
          /\ appended.result = "DRAW"
          /\ appended.potWon = 0]_vars

\* all ten rounds were drawn: the last draw has just split all sixty chips
C12_Witness ==
    /\ lastOp.op = "Showdown"
    /\ match.roundStatus = "RESULT"
    /\ Len(match.history) = 10
    /\ \A h \in 1 .. 10 : match.history[h].result = "DRAW"
    /\ \A t \in Teams : winningsOf(room, t) = TOTAL_CHIPS
    /\ match.carryOver = 0

(***************************************************************************)
(* C13: Confirm is idempotent per team: a Confirm by a team already marked *)
(* in resultConfirmed changes nothing.  The gate fires at the Confirm that *)
(* makes both teams marked: there resultConfirmed is emptied,              *)
(* lastRoundResult cleared and the match leaves RESULT, and the match      *)
(* leaves RESULT in no other step; the Confirm of one team alone only      *)
(* marks that team.                                                        *)
(***************************************************************************)
ConfirmStep == lastOp'.op = "Confirm"

C13_ConfirmGate ==
    /\ [][(ConfirmStep /\ actor \in match.resultConfirmed) => room' = room]_vars
    /\ [][(/\ ConfirmStep
            /\ match.roundStatus = "RESULT"
            /\ actor \notin match.resultConfirmed
            /\ other(actor) \in match.resultConfirmed)
              => /\ room'.match.resultConfirmed = {}
                 /\ room'.match.lastRoundResult = Undefined
                 /\ room'.match.roundStatus \in {"READY", "FINISHED"}]_vars
    /\ [][(/\ ConfirmStep
            /\ match.roundStatus = "RESULT"
            /\ other(actor) \notin match.resultConfirmed)
              => /\ room'.match.resultConfirmed = match.resultConfirmed \cup {actor}
                 /\ room'.match.lastRoundResult = match.lastRoundResult
                 /\ room'.match.roundStatus = "RESULT"
                 /\ room'.match.currentRound = match.currentRound]_vars
    /\ [][(match.roundStatus = "RESULT" /\ room'.match.roundStatus # "RESULT")
              => /\ ConfirmStep
                 /\ match.resultConfirmed = {other(actor)}]_vars

\* team A, confirming after team B, has just closed the result of round 2
C13_Witness ==
    /\ lastOp = Op("Confirm", teamAId)
    /\ match.roundStatus = "READY"
    /\ match.currentRound = 3
    /\ Len(match.history) = 2
    /\ match.resultConfirmed = {}
    /\ match.lastRoundResult = Undefined

GateStep ==
    /\ ConfirmStep
    /\ match.roundStatus = "RESULT"
    /\ match.resultConfirmed = {other(actor)}

C15_Finished ==
    /\ [][GateStep =>
             IF match.currentRound = 10
             THEN /\ room'.match.roundStatus = "FINISHED"
                  /\ room'.match.currentRound = 10
             ELSE /\ room'.match.roundStatus = "READY"
                  /\ room'.match.currentRound = match.currentRound + 1]_vars
    /\ [][room'.match.roundStatus = "FINISHED" =>
             (match.roundStatus = "FINISHED" \/ (GateStep /\ match.currentRound = 10))]_vars
    /\ [][match.roundStatus = "FINISHED" => room' = room]_vars

\* after the match was finished a team has tried another Showdown
C15_Witness ==
    /\ lastOp.op = "Showdown"
    /\ match.roundStatus = "FINISHED"
    /\ match.currentRound = 10
    /\ Len(match.history) = 10
    /\ match.resultConfirmed = {}

(***************************************************************************)
(* C16: outside admin override a submit locks the team (isReady becomes    *)
(* true and the strategy is written to the shared record) only if the      *)
(* strategy's cards are exactly the set 0..9, its chips sum to TOTAL_CHIPS *)
(* and every round holds at least 1 chip; a rejected submit writes nothing *)
(* to the shared record and leaves isReady false and the strategy          *)
(* editable.                                                               *)
(***************************************************************************)
validStrategy(strat) ==
    /\ Len(strat) = TOTAL_ROUNDS
    /\ {strat[i].card : i \in Rounds} = 0 .. 9
    /\ usedChipsOf(strat) = TOTAL_CHIPS
    /\ \A i \in Rounds : strat[i].chips >= 1

\* the step marks the team ready
LockStep(t) == ~room.teams[t].isReady /\ room'.teams[t].isReady

SubmitStep == lastOp'.op = "Submit"

C16_SubmitValidated ==
    /\ [][\A t \in Teams :
             /\ LockStep(t) =>
                   /\ lastOp' = Op("ConfirmSubmit", t)
                   /\ validStrategy(room'.teams[t].strategy)
                   /\ room'.teams[t].strategy = editorStrategy[t]
             /\ (~room.teams[t].isReady /\ ~LockStep(t)) =>
                   room'.teams[t].strategy = room.teams[t].strategy]_vars
    /\ [][(/\ SubmitStep
            /\ ~room.teams[actor].isReady
            /\ ~validStrategy(editorStrategy[actor]))
              => /\ room' = room
                 /\ ~room'.teams[actor].isReady
                 /\ ~submitConfirmOpen'[actor]
                 /\ editorStrategy' = editorStrategy
                 /\ ~readOnly(room', actor)]_vars

\* team B has just submitted a draft with every chip placed but a card missing:
\* it is still not ready and nothing of it is stored
C16_Witness ==
    /\ lastOp = Op("Submit", teamBId)
    /\ room.status = "PREPARING"
    /\ ~room.teams[teamBId].isReady
    /\ room.teams[teamBId].strategy = Undefined
    /\ ~submitConfirmOpen[teamBId]
    /\ remainingChips(editorStrategy[teamBId]) = 0
    /\ usedCardsLength(editorStrategy[teamBId]) = TOTAL_ROUNDS - 1

\* team B has just been locked with the strategy its editor held
SubmitLocked ==
    /\ lastOp = Op("ConfirmSubmit", teamBId)
    /\ room.teams[teamBId].isReady
    /\ validStrategy(room.teams[teamBId].strategy)
    /\ room.teams[teamBId].strategy[TOTAL_ROUNDS].card = 8

(***************************************************************************)
(* C17: once a team is locked (isReady = true) and outside admin override, *)
(* its strategy (the card and chips of each of its 10 rounds) is unchanged *)
(* by every engine action until the match reaches FINISHED.                *)
(***************************************************************************)
storedStrategy(r, t) == r.teams[t].strategy

\* the claim as stated: no step changes the strategy of a locked team
C17_StrategyImmutable_Stated ==
    [][\A t \in Teams :
          (room.teams[t].isReady /\ match.roundStatus # "FINISHED") =>
              storedStrategy(room', t) = storedStrategy(room, t)]_vars

\* C17 as amended: the cards of a locked team's strategy are unchanged by
\* every action; its chips are changed only by the team's own funded Call,
\* which raises the chips of the current round by diff, and by its own
\* accepted steal, which raises the chips of the current round by diff and
\* lowers those of future rounds, none below 1; chips and winnings together
\* stay the same
C17_StrategyChanges ==
    [][\A t \in Teams :
          room.teams[t].isReady =>
            /\ \A i \in Rounds :
                  /\ storedStrategy(room', t)[i].card = storedStrategy(room, t)[i].card
                  /\ storedStrategy(room', t)[i].round = storedStrategy(room, t)[i].round
            /\ storedStrategy(room', t) # storedStrategy(room, t) =>
                  /\ actor = t
                  /\ lastOp'.op \in {"Call", "ConfirmSteal"}
                  /\ match.roundStatus = "DECISION"
                  /\ match.turnOwner = t
                  /\ chipsOf(room', t) = chipsOf(room, t) + diffOf(room, t)
                  /\ \A i \in Rounds :
                        /\ i < match.currentRound =>
                              storedStrategy(room', t)[i].chips = storedStrategy(room, t)[i].chips
                        /\ i > match.currentRound =>
                              /\ storedStrategy(room', t)[i].chips >= 1
                              /\ storedStrategy(room', t)[i].chips <= storedStrategy(room, t)[i].chips
                              /\ lastOp'.op = "Call" =>
                                    storedStrategy(room', t)[i].chips
                                      = storedStrategy(room, t)[i].chips
                  /\ usedChipsOf(storedStrategy(room', t)) + winningsOf(room', t)
                       = usedChipsOf(storedStrategy(room, t)) + winningsOf(room, t)]_vars

\* team B, locked from its editor, has just covered a Call with chips of its
\* last round
C17_Witness ==
    /\ lastOp = Op("ConfirmSteal", teamBId)
    /\ room.teams[teamBId].isReady
    /\ match.roundStatus = "SHOWDOWN"
    /\ chipsOf(room, teamBId) = chipsOf(room, teamAId)
    /\ storedStrategy(room, teamBId)[TOTAL_ROUNDS].chips < ChipPlan(MaxPlan)[TOTAL_ROUNDS]
    /\ \A i \in Rounds : storedStrategy(room, teamBId)[i].card # -1

(***************************************************************************)
(* C18: the READY evaluation of round 1 (the first transition of a match   *)
(* from READY to DECISION or SHOWDOWN) happens only after both teams of    *)
(* the match are locked; no round is evaluated or played while a team's    *)
(* strategy is still unlocked.                                             *)
(***************************************************************************)
bothLocked(r) == \A t \in Teams : r.teams[t].isReady

\* the step takes the match from READY to DECISION or SHOWDOWN
EvaluationStep ==
    /\ match.roundStatus = "READY"
    /\ room'.match.roundStatus \in {"DECISION", "SHOWDOWN"}

C18_EvaluationAfterLock ==
    /\ [][EvaluationStep =>
             /\ bothLocked(room)
             /\ room.status = "PLAYING"
             /\ lastOp' = Op("ReadyEffect", teamAId)]_vars
    /\ [](~bothLocked(room) =>
             /\ match.roundStatus = "READY"
             /\ match.currentRound = 1
             /\ match.history = <<>>
             /\ match.turnOwner = None
             /\ \A t \in Teams : winningsOf(room, t) = 0)

\* the game was started while team B was still in the editor: the effect of
\* team A has just run and the match is still in READY
C18_Witness ==
    /\ lastOp = Op("ReadyEffect", teamAId)
    /\ room.status = "PLAYING"
    /\ room.teams[teamAId].isReady
    /\ ~room.teams[teamBId].isReady
    /\ match.roundStatus = "READY"

C20_OnlyTeamAEvaluates ==
    /\ [][(lastOp'.op = "ReadyEffect" /\ actor # match.teamAId) => room' = room]_vars
    /\ [][EvaluationStep => lastOp' = Op("ReadyEffect", match.teamAId)]_vars

\* the effect of team B's client has just run on a match in READY of round 2
C20_Witness ==
    /\ lastOp = Op("ReadyEffect", teamBId)
    /\ room.status = "PLAYING"
    /\ match.roundStatus = "READY"
    /\ match.currentRound = 2
    /\ chipsOf(room, teamAId) # chipsOf(room, teamBId)

C25_TurnOwner ==
    /\ [](match.turnOwner # None <=> match.roundStatus = "DECISION")
    /\ [](match.turnOwner # None =>
             /\ match.turnOwner \in {match.teamAId, match.teamBId}
             /\ chipsOf(room, match.turnOwner) < chipsOf(room, other(match.turnOwner)))
    /\ [][(\/ FoldStep
           \/ CallStep /\ winningsOf(room, actor) >= diffOf(room, actor)
           \/ StealStep)
             => /\ match.turnOwner = actor
                /\ room'.match.turnOwner = None
                /\ room'.match.roundStatus # "DECISION"]_vars
    /\ [][match.roundStatus # "READY" => room'.match.turnOwner \in {None, match.turnOwner}]_vars

\* team A's evaluation has just given the turn to team B, which holds fewer chips
C25_Witness ==
    /\ lastOp = Op("ReadyEffect", teamAId)
    /\ match.roundStatus = "DECISION"
    /\ match.turnOwner = teamBId
    /\ match.currentRound = 2
    /\ chipsOf(room, teamBId) < chipsOf(room, teamAId)
    /\ Len(match.history) = 1

(***************************************************************************)
(* C26: chips are conserved over a match played from two validated         *)
(* strategies of 30 chips each: a funded Call and an accepted Steal leave  *)
(* the acting team's winnings plus its chips over the rounds from          *)
(* currentRound on unchanged; in every state winningsA + winningsB +       *)
(* carryOver + the chips both teams hold in unresolved rounds is 60; and   *)
(* at FINISHED winningsA + winningsB is 60.                                *)
(***************************************************************************)
RECURSIVE chipsFrom(_, _, _)
\* the chips a team holds in the rounds from..TOTAL_ROUNDS of its stored strategy
chipsFrom(r, teamId, from) ==
    IF from > TOTAL_ROUNDS THEN 0
    ELSE r.teams[teamId].strategy[from].chips + chipsFrom(r, teamId, from + 1)

\* the first round that is not resolved yet
firstUnresolved(r) ==
    IF r.match.roundStatus \in {"RESULT", "FINISHED"}
    THEN r.match.currentRound + 1 ELSE r.match.currentRound

\* everything the two teams own, hold in the pot or still have to play
chipsInPlay(r) ==
    winningsOf(r, teamAId) + winningsOf(r, teamBId) + r.match.carryOver
      + chipsFrom(r, teamAId, firstUnresolved(r)) + chipsFrom(r, teamBId, firstUnresolved(r))

C26_ChipsConserved ==
    /\ [][((CallStep /\ winningsOf(room, actor) >= diffOf(room, actor)) \/ StealStep) =>
             winningsOf(room', actor) + chipsFrom(room', actor, match.currentRound)
                = winningsOf(room, actor) + chipsFrom(room, actor, match.currentRound)]_vars
    /\ [](chipsInPlay(room) = 2 * TOTAL_CHIPS)
    /\ [](room.status = "FINISHED" =>
             winningsOf(room, teamAId) + winningsOf(room, teamBId) = 2 * TOTAL_CHIPS)

(***************************************************************************)
(* C27: starting from the initial strategy (all cards unset, 1 chip per    *)
(* round), after any sequence of chip +/- steps, card drops from the deck, *)
(* card moves between rounds and card removals the editor holds a draft    *)
(* in which every round has chips >= 1, the total of the chips is at most  *)
(* 30 and no card value 0..9 is placed in more than one round; hence a     *)
(* draft with 10 placed cards and 0 remaining chips is a valid strategy.   *)
(***************************************************************************)
C27_EditorInvariants ==
    \A t \in Teams :
        LET strat == editorStrategy[t]
        IN  /\ Len(strat) = TOTAL_ROUNDS
            /\ \A i \in Rounds : strat[i].chips >= 1
            /\ usedChipsOf(strat) <= TOTAL_CHIPS
            /\ \A i \in Rounds : strat[i].card \in CARDS \cup {-1}
            /\ \A c \in CARDS : Cardinality({i \in Rounds : strat[i].card = c}) <= 1
            /\ (usedCardsLength(strat) = 10 /\ remainingChips(strat) = 0)
                  => validStrategy(strat)

\* the editor of team B, started from the initial strategy, has just put
\* its last chip on a draft that holds all ten cards, two of them swapped
C27_Witness ==
    /\ lastOp = Op("SetChips", teamBId)
    /\ room.teams[teamBId].strategy = Undefined
    /\ usedCardsLength(editorStrategy[teamBId]) = 10
    /\ remainingChips(editorStrategy[teamBId]) = 0
    /\ editorStrategy[teamBId][TOTAL_ROUNDS].card = TOTAL_ROUNDS - 2
    /\ editorStrategy[teamBId][TOTAL_ROUNDS - 1].chips > 1

(***************************************************************************)
(* C22: a match that is being played never deadlocks before FINISHED: in   *)
(* every reachable state of a PLAYING room whose match is not FINISHED at  *)
(* least one legal action is enabled (READY: team A's evaluation;          *)
(* DECISION: the turn owner's Fold, even when a Call cannot be funded;     *)
(* SHOWDOWN: either team's Showdown; RESULT: the Confirm of a team that    *)
(* has not confirmed yet).                                                 *)
(***************************************************************************)
\* some team has a legal action, one whose handler changes the room
legalActionEnabled(r) ==
    \E t \in Teams :
        \/ r.match.roundStatus = "READY" /\ readyEffect(r, t) # r
        \/ r.match.roundStatus = "DECISION" /\ handleFold(r, t) # r
        \/ r.match.roundStatus = "SHOWDOWN" /\ handleShowdown(r, t) # r
        \/ /\ r.match.roundStatus = "RESULT"
           /\ confirmButtonEnabled(r, t)
           /\ handleConfirmResult(r, t) # r

C22_NoDeadlock ==
    (room.status = "PLAYING" /\ match.roundStatus # "FINISHED")
        => legalActionEnabled(room)

\* the room is being played, its match waits in READY of round 1, and no
\* step of any client changes the room any more
C22_Stuck ==
    /\ room.status = "PLAYING"
    /\ match.roundStatus = "READY"
    /\ match.currentRound = 1
    /\ ~room.teams[teamBId].isReady
    /\ ~ENABLED (SetupNext /\ room' # room)

\* a match of two locked teams whose plans differ in chips and in cards
FairInit ==
    /\ Init
    /\ room.teams[teamAId].strategy = MakeStrategy(CardPlan(0), ChipPlan(MaxPlan))
    /\ room.teams[teamBId].strategy = MakeStrategy(CardPlan(MaxCardPlan), ChipPlan(1))

\* every step of a client that changes the room or closes its steal modal,
\* and that is possible again and again, is taken at some time
FairSpec ==
    /\ FairInit
    /\ [][Next]_vars
    /\ \A t \in Teams :
          /\ SF_vars(ReadyEffect(t) /\ room' # room)
          /\ SF_vars(Fold(t) /\ room' # room)
          /\ SF_vars(CancelSteal(t))
          /\ SF_vars(Showdown(t) /\ room' # room)
          /\ SF_vars(Confirm(t) /\ room' # room)

\* under FairSpec the match reaches FINISHED, with ten rounds in its history
C22_Terminates ==
    <>(match.roundStatus = "FINISHED" /\ Len(match.history) = TOTAL_ROUNDS)


(***************************************************************************)
(* C21: every write replaces the whole shared record with the room the     *)
(* writing device holds plus the handler's own change.  What the store     *)
(* held before the write does not matter: a Confirm made from a held       *)
(* RESULT room in which nobody has confirmed leaves only the confirmer in  *)
(* resultConfirmed and the round where it was, and a READY evaluation made *)
(* by team A from a held READY room writes that room's history and teams,  *)
(* whatever Fold or Call the store had taken since.                        *)
(***************************************************************************)
\* the room the device holds before the step
heldBy(c) == IF clients[c].snap = Undefined THEN room ELSE clients[c].snap[1]

\* a handler of a device has written
WriteStep ==
    /\ lastOp'.op \notin {"init", "Deliver"}
    /\ room' # room \/ lastOp'.same

\* the device that took the step
writer == lastOp'.client

isPrefix(s, t) == Len(s) <= Len(t) /\ SubSeq(t, 1, Len(s)) = s

C21_WholeRecordOverwrite ==
    /\ [][WriteStep =>
             LET h == heldBy(writer)
             IN  /\ room'.status = h.status
                 /\ room'.match2 = h.match2
                 /\ \A u \in AllTeams \ Teams : room'.teams[u] = h.teams[u]
                 /\ \A u \in Teams \ {actor} :
                       room'.teams[u].strategy = h.teams[u].strategy
                 /\ lastOp'.op \in {"ReadyEffect", "Confirm"} => room'.teams = h.teams
                 /\ isPrefix(h.match.history, room'.match.history)
                 /\ Len(room'.match.history) <= Len(h.match.history) + 1
                 /\ room'.match.currentRound \in
                       {h.match.currentRound, h.match.currentRound + 1}
                 /\ room'.match.carryOver \in
                       {h.match.carryOver, 0,
                        h.match.carryOver + chipsOf(h, teamAId) + chipsOf(h, teamBId)}]_vars
    /\ [][(/\ WriteStep
           /\ lastOp'.op = "Confirm"
           /\ heldBy(writer).match.roundStatus = "RESULT"
           /\ heldBy(writer).match.resultConfirmed = {})
            => /\ room'.match.resultConfirmed = {actor}
               /\ room'.match.roundStatus = "RESULT"
               /\ room'.match.currentRound = heldBy(writer).match.currentRound]_vars
    /\ [][(/\ WriteStep
           /\ lastOp'.op = "ReadyEffect")
            => /\ actor = teamAId
               /\ heldBy(writer).match.roundStatus = "READY"
               /\ room'.match.roundStatus \in {"DECISION", "SHOWDOWN"}
               /\ room'.match.history = heldBy(writer).match.history
               /\ room'.match.lastAction = heldBy(writer).match.lastAction
               /\ room'.teams = heldBy(writer).teams]_vars

\* team A confirmed the result, team B has just confirmed from the room it
\* held from before: only team B is marked, the round has not advanced, and a
\* device of team A still holds the room in which team A was marked
C21_Witness ==
    /\ lastOp.op = "Confirm"
    /\ lastOp.client = "b1"
    /\ lastOp.stale
    /\ room.match.roundStatus = "RESULT"
    /\ room.match.resultConfirmed = {teamBId}
    /\ clients["a1"].snap # Undefined
    /\ clients["a1"].snap[1].match.resultConfirmed = {teamAId}
    /\ clients["a1"].snap[1].match.currentRound = room.match.currentRound

\* team B folded, a device of team A has just written its late READY
\* evaluation: the match is back in DECISION with an empty history, and team
\* B's device still holds the room with its Fold
C21_FoldReverted ==
    /\ lastOp.op = "ReadyEffect"
    /\ lastOp.stale
    /\ room.match.roundStatus = "DECISION"
    /\ room.match.history = <<>>
    /\ clients["b1"].snap # Undefined
    /\ clients["b1"].snap[1].match.roundStatus = "RESULT"
    /\ clients["b1"].snap[1].match.history[1].result = "B_FOLDED"
    /\ winningsOf(room, teamAId) < winningsOf(clients["b1"].snap[1], teamAId)

\* a device of team A paid a Call from winnings, the other device of team A
\* has just written its late READY evaluation: the match is back in DECISION,
\* the winnings are back and the chips of the round are unequal again
C21_CallReverted ==
    /\ lastOp.op = "ReadyEffect"
    /\ lastOp.stale
    /\ room.match.roundStatus = "DECISION"
    /\ room.match.turnOwner = teamAId
    /\ chipsOf(room, teamAId) < chipsOf(room, teamBId)
    /\ clients["b1"].snap # Undefined
    /\ clients["b1"].snap[1].match.roundStatus = "SHOWDOWN"
    /\ clients["b1"].snap[1].match.lastAction = Some([teamId |-> teamAId, action |-> "CALL"])
    /\ winningsOf(clients["b1"].snap[1], teamAId) < winningsOf(room, teamAId)


(***************************************************************************)
(* C28: when both teams trigger Showdown for a round from the same         *)
(* SHOWDOWN room, the round is paid once: after the second write the       *)
(* winner's winnings and score are those of the held room raised by the    *)
(* pot and by 1, and history holds exactly one RoundResult of the round.   *)
(***************************************************************************)
\* a device has written its Showdown from a room in SHOWDOWN
ShowdownWrite ==
    /\ WriteStep
    /\ lastOp'.op = "Showdown"
    /\ heldBy(writer).match.roundStatus = "SHOWDOWN"

\* the holder of the higher card of the round in room r
higherCardIn(r) ==
    IF cardOf(r, teamAId) > cardOf(r, teamBId) THEN teamAId ELSE teamBId

\* the results that history holds for the round
resultsOf(r, round) == {i \in DOMAIN r.match.history : r.match.history[i].round = round}

\* r holds the held room h with its round paid out once
paidOnce(h, r) ==
    LET w == higherCardIn(h)
    IN  /\ cardOf(h, teamAId) # cardOf(h, teamBId)
        /\ winningsOf(r, w) = winningsOf(h, w) + potOf(h)
        /\ winningsOf(r, other(w)) = winningsOf(h, other(w))
        /\ scoreOf(r, w) = scoreOf(h, w) + 1
        /\ scoreOf(r, other(w)) = scoreOf(h, other(w))
        /\ Len(r.match.history) = Len(h.match.history) + 1
        /\ isPrefix(h.match.history, r.match.history)
        /\ r.match.history[Len(r.match.history)].round = h.match.currentRound
        /\ \A u \in Teams : r.teams[u].strategy = h.teams[u].strategy

\* the second of two Showdowns made from the same room, one by each team: the
\* store holds what the other team's Showdown has just written
SecondShowdown ==
    /\ ShowdownWrite
    /\ lastOp'.same
    /\ lastOp.op = "Showdown"
    /\ lastOp.team = other(actor)
    /\ room = handleShowdown(heldBy(writer), lastOp.team)

C28_ShowdownPaidOnce ==
    [][(SecondShowdown
         /\ cardOf(heldBy(writer), teamAId) # cardOf(heldBy(writer), teamBId))
          => /\ paidOnce(heldBy(writer), room')
             /\ Cardinality(resultsOf(room', room'.match.currentRound)) = 1]_vars

\* what the two Showdowns do to the room they were made from: each write
\* stores that room paid once, the second changes nothing the first wrote
C28_SameWriteTwice ==
    /\ [][(ShowdownWrite
            /\ cardOf(heldBy(writer), teamAId) # cardOf(heldBy(writer), teamBId))
             => paidOnce(heldBy(writer), room')]_vars
    /\ [][SecondShowdown => room' = room]_vars

\* one team resolved the round, the other team has just triggered Showdown
\* from the SHOWDOWN room it still held: the store holds the one payout
C28_Witness ==
    /\ lastOp.op = "Showdown"
    /\ lastOp.client = "b1"
    /\ lastOp.stale
    /\ lastOp.same
    /\ room.match.roundStatus = "RESULT"
    /\ Len(room.match.history) = room.match.currentRound
    /\ Cardinality(resultsOf(room, room.match.currentRound)) = 1
    /\ room.match.lastRoundResult[1].potWon > 0
    /\ winningsOf(room, higherCardIn(room)) >= room.match.lastRoundResult[1].potWon
    /\ chipsInPlay(room) = 2 * TOTAL_CHIPS


(***************************************************************************)
(* C29: an action taken in the first match leaves the second match and its *)
(* teams unchanged: roundStatus, currentRound and history of the second    *)
(* match and the winnings and strategies of its teams are neither altered  *)
(* nor rolled back by a READY evaluation, Fold, Call, steal, Showdown or   *)
(* Confirm of a device of the first match, whatever room that device held. *)
(***************************************************************************)
\* a device of the first match has taken a step of the game
FirstMatchStep ==
    /\ lastOp'.op \in {"ReadyEffect", "Fold", "Call", "AdjustTempChips", "CancelSteal",
                       "ConfirmSteal", "Showdown", "Confirm"}
    /\ actor \in Teams

\* the second match and its teams are in room s what they are in room r
secondMatchSame(r, s) ==
    /\ s.match2.roundStatus = r.match2.roundStatus
    /\ s.match2.currentRound = r.match2.currentRound
    /\ s.match2.history = r.match2.history
    /\ \A u \in AllTeams \ Teams :
          /\ s.teams[u].winnings = r.teams[u].winnings
          /\ s.teams[u].strategy = r.teams[u].strategy

C29_OtherMatchUntouched ==
    [][FirstMatchStep => secondMatchSame(room, room')]_vars

\* the same of a device that holds the room of the store
C29_FreshWriter ==
    [][(FirstMatchStep /\ ~lastOp'.stale) => secondMatchSame(room, room')]_vars

\* a device of the first match has just written from an older room, and the
\* device of the second match still holds the room with its resolved round
C29_RolledBack ==
    /\ lastOp.team = teamAId
    /\ lastOp.stale
    /\ room.match2.history = <<>>
    /\ clients["c1"].snap # Undefined
    /\ clients["c1"].snap[1].match2.roundStatus = "RESULT"
    /\ Len(clients["c1"].snap[1].match2.history) = 1
    /\ winningsOf(room, teamDId) < winningsOf(clients["c1"].snap[1], teamDId)


(***************************************************************************)
(* C30: a completed AI help request changes only the requesting team's     *)
(* aiHelps counter, by +1 and never above 3, and its aiAdvice entry:       *)
(* roundStatus, currentRound, turnOwner, history, resultConfirmed,         *)
(* winnings and strategies stay what the store holds when the answer       *)
(* arrives, whatever was written while the request was pending.  A failed  *)
(* request changes nothing.                                                *)
(***************************************************************************)
AnswerStep == lastOp'.op = "AnswerHelp"

FailStep == lastOp'.op = "FailHelp"

\* the game state of the first match and of all teams is in s what it is in r
gameSame(r, s) ==
    /\ s.match.roundStatus = r.match.roundStatus
    /\ s.match.currentRound = r.match.currentRound
    /\ s.match.turnOwner = r.match.turnOwner
    /\ s.match.history = r.match.history
    /\ s.match.resultConfirmed = r.match.resultConfirmed
    /\ \A u \in AllTeams :
          /\ s.teams[u].winnings = r.teams[u].winnings
          /\ s.teams[u].strategy = r.teams[u].strategy

\* s is r with one more help counted for the team and its advice set
helpCounted(r, s, teamId) ==
    /\ s.match.aiHelps[teamId] = r.match.aiHelps[teamId] + 1
    /\ s.match.aiHelps[teamId] <= 3
    /\ s.match.aiAdvice[teamId] # Undefined
    /\ s.match.aiHelps[other(teamId)] = r.match.aiHelps[other(teamId)]
    /\ s.match.aiAdvice[other(teamId)] = r.match.aiAdvice[other(teamId)]

C30_HelpChangesOnlyHelp ==
    /\ [][AnswerStep => helpCounted(room, room', actor) /\ gameSame(room, room')]_vars
    /\ [][FailStep => room' = room]_vars

\* what the answer writes: the room the request was made on, with the help
\* counted and the advice set
C30_AnswerOnRequestRoom ==
    /\ [][AnswerStep =>
             /\ clients[writer].ai # Undefined
             /\ helpCounted(clients[writer].ai[1], room', actor)
             /\ gameSame(clients[writer].ai[1], room')
             /\ clients'[writer].ai = Undefined]_vars
    /\ [][FailStep => room' = room /\ clients'[writer].ai = Undefined]_vars

\* team B asked for advice in SHOWDOWN, team A resolved the round, and the
\* answer has just put the match back into SHOWDOWN: the device of team A still
\* holds the room with the RoundResult and the winnings it paid
C30_RolledBack ==
    /\ lastOp.op = "AnswerHelp"
    /\ lastOp.team = teamBId
    /\ lastOp.stale
    /\ room.match.roundStatus = "SHOWDOWN"
    /\ room.match.aiHelps[teamBId] = 1
    /\ room.match.history = <<>>
    /\ clients["a1"].snap # Undefined
    /\ clients["a1"].snap[1].match.roundStatus = "RESULT"
    /\ Len(clients["a1"].snap[1].match.history) = 1
    /\ winningsOf(room, teamAId) < winningsOf(clients["a1"].snap[1], teamAId)


\* team B's request is pending on a SHOWDOWN room, and team A has just
\* resolved the round
C30_WrittenWhilePending ==
    /\ lastOp.op = "Showdown"
    /\ lastOp.team = teamAId
    /\ room.match.roundStatus = "RESULT"
    /\ clients["b1"].ai # Undefined
    /\ clients["b1"].ai[1].match.roundStatus = "SHOWDOWN"
    /\ clients["b1"].ai[1].match.currentRound = room.match.currentRound
    /\ clients["b1"].ai[1].match.history = <<>>

=============================================================================
